---- MODULE Spec2Model ----
(***************************************************************************)
(* Model of the goauth2 authorization server: the authorization endpoint   *)
(* (HandleOAuthRequest), the completion callbacks handed to the auth       *)
(* handler (AuthCodeRedirect / ImplicitRedirect), the token endpoint       *)
(* (HandleAccessTokenRequest), MasterHandler's dispatch, StoreImpl and the *)
(* in-memory BasicAuthCache with its DelayedDelete expiry goroutines.      *)
(*                                                                         *)
(* Strings that the code parses are modelled by their structure: a URI     *)
(* string is a record of its scheme, host part, query and fragment, and    *)
(* url.Parse / URL.String convert between the string and the parsed URL.   *)
(* Time is abstract: a pending DelayedDelete may fire at any moment.       *)
(***************************************************************************)
EXTENDS Integers, Sequences, FiniteSets, TLC

\* How many identifiers are received from the RandStr channel in one run.
MaxIds == 3
\* How many requests may be waiting in the auth handler at the same time.
MaxPending == 1

----------------------------------------------------------------------------
(* Errors *)

ErrorCodeInvalidRequest == "invalid_request"
ErrorCodeUnsupportedResponseType == "unsupported_response_type"
ErrorCodeUnsupportedGrantType == "unsupported_grant_type"
ErrorCodeAccessDenied == "access_denied"
ErrorCodeBadRedirectURI == "bad_redirect_uri"
ErrorCodeInvalidToken == "invalid_token"
ErrorCodeServerError == "server_error"
ErrorCodeUnauthorizedClient == "unauthorized_client"

\* The nil error.
NoErr == [kind |-> "nil", code |-> "", description |-> "", uri |-> ""]

NewServerError(code, description, uri) ==
    [kind |-> "ServerError", code |-> code, description |-> description, uri |-> uri]

\* errors.New / fmt.Errorf: an error that is not a ServerError.
PlainError(msg) ==
    [kind |-> "error", code |-> "", description |-> msg, uri |-> ""]

\* fmt's %q of a string.
Quoted(s) == "\"" \o s \o "\""

\* fmt's %q of a redirect_uri string (the strings of the model are structures).
QuotedUri(uri) == ToString(uri)

\* Server.errorURIs: no URI is registered (RegisterErrorURI is never called).
errorURIs(code) == ""

NewError(code, description) == NewServerError(code, description, errorURIs(code))

\* The zero ServerError: what e holds after a failed type assertion.
ZeroServerError == NewServerError("", "", "")

\* error.Error(): the message text.
Error(e) == e.description

\* Server.InterpretError.  When err is no ServerError, e is the zero value of
\* the failed assertion and the description is taken from e, not from err.
InterpretError(err) ==
    IF err.kind # "ServerError"
        THEN NewError(ErrorCodeServerError, Error(ZeroServerError))
    ELSE IF err.uri = ""
        THEN NewError(err.code, err.description)
    ELSE err

----------------------------------------------------------------------------
(* url.Values and setQueryPairs *)

\* An empty url.Values (also the parse of an empty query or fragment).
EmptyValues == [k \in {} |-> ""]

\* url.Values.Set: the key's values are replaced.
Set(v, key, value) ==
    [k \in DOMAIN v \cup {key} |-> IF k = key THEN value ELSE v[k]]

\* url.Values.Get: "" when the key is absent.
Get(v, key) == IF key \in DOMAIN v THEN v[key] ELSE ""

\* setQueryPairs that sets every pair, the empty values too.
setQueryPairs_SetsEmpty(v, pairs) ==
    LET loop[i \in 0..(Len(pairs) \div 2)] ==
            IF i = 0 THEN v
            ELSE Set(loop[i - 1], pairs[2 * i - 1], pairs[2 * i])
    IN  loop[Len(pairs) \div 2]

\* setQueryPairs(v, k1, v1, k2, v2, ...): pairs is the flat argument list; the
\* loop sets pair i (the arguments 2i-1 and 2i) when its value is not empty.
setQueryPairs(v, pairs) ==
    LET loop[i \in 0..(Len(pairs) \div 2)] ==
            IF i = 0 THEN v
            ELSE IF pairs[2 * i] # ""
                THEN Set(loop[i - 1], pairs[2 * i - 1], pairs[2 * i])
            ELSE loop[i - 1]
    IN  loop[Len(pairs) \div 2]

----------------------------------------------------------------------------
(* URI strings and net/url *)

\* A URI string, by structure.  malformed: url.Parse rejects it.  query and
\* fragment are the url.Values their text parses to (Encode sorts by key, so
\* the value determines the text).
UriString(malformed, scheme, host, query, fragment) ==
    [malformed |-> malformed, scheme |-> scheme, host |-> host,
     query |-> query, fragment |-> fragment]

\* The empty string "".
EmptyString == UriString(FALSE, "", "", EmptyValues, EmptyValues)

\* https://cb.example/
UriPlain == UriString(FALSE, "https", "cb.example/", EmptyValues, EmptyValues)
\* HTTPS://cb.example/  (url.Parse lower-cases the scheme)
UriUpper == UriString(FALSE, "HTTPS", "cb.example/", EmptyValues, EmptyValues)
\* https://cb.example/?code=old&error=old&state=old  (a query of its own)
UriQuery == UriString(FALSE, "https", "cb.example/",
                [k \in {"code", "error", "state"} |-> "old"], EmptyValues)
\* hafda;rea  (parses, but is not absolute)
UriRelative == UriString(FALSE, "", "hafda;rea", EmptyValues, EmptyValues)
\* https://cb.example/#frag
UriFragment == UriString(FALSE, "https", "cb.example/", EmptyValues,
                [k \in {"frag"} |-> ""])
\* %zz  (url.Parse fails)
UriMalformed == UriString(TRUE, "", "%zz", EmptyValues, EmptyValues)

\* The redirect_uri strings a request may carry.
RedirectStrings ==
    {EmptyString, UriPlain, UriUpper, UriQuery, UriRelative, UriFragment, UriMalformed}

\* strings.ToLower on the scheme.
ToLower(s) == IF s = "HTTPS" THEN "https" ELSE s

\* A nil *url.URL.
NilURL == [nil |-> TRUE]

\* url.Parse of a well-formed string: the parsed URL.
Parse(s) ==
    [Scheme |-> ToLower(s.scheme), Host |-> s.host,
     RawQuery |-> s.query, Fragment |-> s.fragment]

\* URL.String.
String(u) == UriString(FALSE, u.Scheme, u.Host, u.RawQuery, u.Fragment)

\* URL.IsAbs.
IsAbs(u) == u.Scheme # ""

\* validateRedirectURI: [u, err].
\* validateRedirectURI without the fragment check.
validateRedirectURI_NoFragmentCheck(uri) ==
    IF uri.malformed
        THEN [u |-> NilURL, err |-> PlainError("The redirection URI is malformed: " \o QuotedUri(uri) \o ".")]
    ELSE IF ~IsAbs(Parse(uri))
        THEN [u |-> Parse(uri),
              err |-> PlainError("The redirection URI must be absolute: " \o QuotedUri(uri) \o ".")]
    ELSE [u |-> Parse(uri), err |-> NoErr]

validateRedirectURI(uri) ==
    IF uri.malformed
        THEN [u |-> NilURL, err |-> PlainError("The redirection URI is malformed: " \o QuotedUri(uri) \o ".")]
    ELSE IF ~IsAbs(Parse(uri))
        THEN [u |-> Parse(uri),
              err |-> PlainError("The redirection URI must be absolute: " \o QuotedUri(uri) \o ".")]
    ELSE IF Parse(uri).Fragment # EmptyValues
        THEN [u |-> Parse(uri),
              err |-> PlainError("The redirection URI must not contain a fragment: " \o QuotedUri(uri) \o ".")]
    ELSE [u |-> Parse(uri), err |-> NoErr]

----------------------------------------------------------------------------
(* RandStr, the AuthCache and StoreImpl.  A store value st is the record     *)
(* [AuthCodes, AccessTokens, timers, rand, up] of the state they work on:    *)
(* the maps and expiry goroutines of BasicAuthCache, the strings received    *)
(* from RandStr, and whether the AuthCache backend answers the calls of the  *)
(* request at hand (BasicAuthCache always does, RedisAuthCache returns the   *)
(* error of its database when it does not).                                  *)

\* RandStr of a goroutine that makes a new hash in every round of its loop.
RandStr_FreshHash(n) == ToString(1)

\* The n-th string received from the RandStr channel.
RandStr(n) == ToString(n)

CodeExpiry == 100
TokenExpiry == 3600

\* m[key] = entry
Put(m, key, entry) ==
    [k \in DOMAIN m \cup {key} |-> IF k = key THEN entry ELSE m[k]]

\* delete(m, key)
Delete(m, key) == [k \in DOMAIN m \ {key} |-> m[k]]

CacheEntry(clientID, scope, redirect_uri) ==
    [ClientID |-> clientID, Scope |-> scope, RedirectURI |-> redirect_uri]

\* go DelayedDelete(m, key, secs): a goroutine waiting to delete key from m.
Timer(m, key, secs) == [m |-> m, key |-> key, secs |-> secs]

\* RegisterAuthCode that starts no DelayedDelete goroutine.
RegisterAuthCode_NoDelete(st, clientID, scope, redirect_uri, code) ==
    [err |-> NoErr,
     st |-> [st EXCEPT
        !.AuthCodes = Put(@, code, CacheEntry(clientID, scope, redirect_uri))]]

RegisterAuthCode(st, clientID, scope, redirect_uri, code) ==
    [err |-> NoErr,
     st |-> [st EXCEPT
        !.AuthCodes = Put(@, code, CacheEntry(clientID, scope, redirect_uri)),
        !.timers = @ \cup {Timer("AuthCodes", code, CodeExpiry)}]]

RegisterAccessToken(st, clientID, scope, token) ==
    [ttype |-> "bearer", expiry |-> TokenExpiry, err |-> NoErr,
     st |-> [st EXCEPT
        !.AccessTokens = Put(@, token, CacheEntry(clientID, scope, EmptyString)),
        !.timers = @ \cup {Timer("AccessTokens", token, TokenExpiry)}]]

LookupAuthCode(st, code) ==
    IF code \notin DOMAIN st.AuthCodes
        THEN [clientID |-> "", scope |-> "", redirect_uri |-> EmptyString,
              err |-> PlainError("AuthCode not found in Cache!")]
    ELSE [clientID |-> st.AuthCodes[code].ClientID,
          scope |-> st.AuthCodes[code].Scope,
          redirect_uri |-> st.AuthCodes[code].RedirectURI,
          err |-> NoErr]

\* LookupAccessToken that looks the token up among the codes.
LookupAccessToken_Codes(st, token) ==
    [ok |-> token \in DOMAIN st.AuthCodes, err |-> NoErr, st |-> st]

\* LookupAccessToken that removes the token it finds.
LookupAccessToken_Consumes(st, token) ==
    [ok |-> token \in DOMAIN st.AccessTokens, err |-> NoErr,
     st |-> [st EXCEPT !.AccessTokens = Delete(@, token)]]

\* LookupAccessToken of a cache that keeps codes and tokens in one map.
LookupAccessToken_OneMap(st, token) ==
    [ok |-> token \in DOMAIN st.AccessTokens \cup DOMAIN st.AuthCodes,
     err |-> NoErr, st |-> st]

\* [ok, err, st]: the map is read and the cache is left as it was.
LookupAccessToken(st, token) ==
    [ok |-> token \in DOMAIN st.AccessTokens, err |-> NoErr, st |-> st]

\* The error a cache returns when its backend did not answer.
BackendError == PlainError("backend unavailable")

\* s.Backend.RegisterAuthCode: the AuthCache the store was built with.
BackendRegisterAuthCode(st, clientID, scope, redirect_uri, code) ==
    IF st.up THEN RegisterAuthCode(st, clientID, scope, redirect_uri, code)
    ELSE [err |-> BackendError, st |-> st]

\* s.Backend.RegisterAccessToken
BackendRegisterAccessToken(st, clientID, scope, token) ==
    IF st.up THEN RegisterAccessToken(st, clientID, scope, token)
    ELSE [ttype |-> "", expiry |-> 0, err |-> BackendError, st |-> st]

\* s.Backend.LookupAuthCode
BackendLookupAuthCode(st, code) ==
    IF st.up THEN LookupAuthCode(st, code)
    ELSE [clientID |-> "", scope |-> "", redirect_uri |-> EmptyString,
          err |-> BackendError]

\* s.Backend.LookupAccessToken
BackendLookupAccessToken(st, token) ==
    IF st.up THEN LookupAccessToken(st, token)
    ELSE [ok |-> FALSE, err |-> BackendError, st |-> st]

\* What the token-creating operations return on failure.
TokenFailure(err, st) ==
    [token |-> "", token_type |-> "", expiry |-> 0, err |-> err, st |-> st]

\* The return of CreateAuthCode once the cache has answered with reg.
CreateAuthCodeReturn(code, reg) ==
    IF reg.err # NoErr
        THEN [code |-> "", err |-> reg.err, st |-> reg.st]
    ELSE [code |-> code, err |-> NoErr, st |-> reg.st]

\* CreateAuthCode that registers the code without the scope.
CreateAuthCode_NoScope(st, r) ==
    CreateAuthCodeReturn(RandStr(st.rand),
        BackendRegisterAuthCode([st EXCEPT !.rand = @ + 1],
            r.ClientID, "", String(r.RedirectURI), RandStr(st.rand)))

\* StoreImpl.CreateAuthCode.  r.RedirectURI is handed to the cache as a string.
CreateAuthCode(st, r) ==
    CreateAuthCodeReturn(RandStr(st.rand),
        BackendRegisterAuthCode([st EXCEPT !.rand = @ + 1],
            r.ClientID, r.Scope, String(r.RedirectURI), RandStr(st.rand)))

\* The return of the token-creating operations once the cache answered with reg.
CreateTokenReturn(token, reg) ==
    IF reg.err # NoErr
        THEN TokenFailure(reg.err, reg.st)
    ELSE [token |-> token, token_type |-> reg.ttype, expiry |-> reg.expiry,
          err |-> NoErr, st |-> reg.st]

\* StoreImpl.CreateImplicitAccessToken.
CreateImplicitAccessToken(st, r) ==
    CreateTokenReturn(RandStr(st.rand),
        BackendRegisterAccessToken([st EXCEPT !.rand = @ + 1],
            r.ClientID, r.Scope, RandStr(st.rand)))

\* ExchangeCode without the comparison of the redirect URIs.
ExchangeCode_AnyRedirect(st, r, look) ==
    IF look.err # NoErr
        THEN TokenFailure(look.err, st)
    ELSE CreateTokenReturn(RandStr(st.rand),
            BackendRegisterAccessToken([st EXCEPT !.rand = @ + 1],
                look.clientID, look.scope, RandStr(st.rand)))

\* ExchangeCode that goes on after a failed lookup.
ExchangeCode_AnyCode(st, r, look) ==
    IF look.err = NoErr /\ look.redirect_uri # r.RedirectURI
        THEN TokenFailure(NewServerError(ErrorCodeBadRedirectURI,
                            "Redirect URI Incorrect.", ""), st)
    ELSE CreateTokenReturn(RandStr(st.rand),
            BackendRegisterAccessToken([st EXCEPT !.rand = @ + 1],
                look.clientID, look.scope, RandStr(st.rand)))

\* ExchangeCode that registers the token without the code's scope.
ExchangeCode_NoScope(st, r, look) ==
    IF look.err # NoErr
        THEN TokenFailure(look.err, st)
    ELSE IF look.redirect_uri # r.RedirectURI
        THEN TokenFailure(NewServerError(ErrorCodeBadRedirectURI,
                            "Redirect URI Incorrect.", ""), st)
    ELSE CreateTokenReturn(RandStr(st.rand),
            BackendRegisterAccessToken([st EXCEPT !.rand = @ + 1],
                look.clientID, "", RandStr(st.rand)))

\* CreateAccessToken after the lookup of the code answered with look.
ExchangeCode(st, r, look) ==
    IF look.err # NoErr
        THEN TokenFailure(look.err, st)
    ELSE IF look.redirect_uri # r.RedirectURI
        THEN TokenFailure(NewServerError(ErrorCodeBadRedirectURI,
                            "Redirect URI Incorrect.", ""), st)
    ELSE CreateTokenReturn(RandStr(st.rand),
            BackendRegisterAccessToken([st EXCEPT !.rand = @ + 1],
                look.clientID, look.scope, RandStr(st.rand)))

\* StoreImpl.CreateAccessToken.  r is an AccessTokenRequest.
CreateAccessToken(st, r) == ExchangeCode(st, r, BackendLookupAuthCode(st, r.Code))

\* ValidateAccessToken's return once the cache has answered with look.
ValidateAccessTokenReturn(look) ==
    IF look.err # NoErr THEN [ok |-> FALSE, err |-> look.err, st |-> look.st]
    ELSE [ok |-> look.ok, err |-> NoErr, st |-> look.st]

\* StoreImpl.ValidateAccessToken: [ok, err, st].  The Authorization field is
\* taken as the token.
ValidateAccessToken(st, authorization_field) ==
    ValidateAccessTokenReturn(BackendLookupAccessToken(st, authorization_field))

----------------------------------------------------------------------------
(* Requests and responses *)

OAuthRequest(clientID, responseType, redirectURI, scope, state) ==
    [ClientID |-> clientID, ResponseType |-> responseType,
     redirectURI_raw |-> redirectURI, RedirectURI |-> NilURL,
     Scope |-> scope, State |-> state]

AccessTokenRequest(grantType, code, redirectURI) ==
    [GrantType |-> grantType, Code |-> code, RedirectURI |-> redirectURI]

\* One response written to the http.ResponseWriter.
Response(status, location, header, body) ==
    [status |-> status, Location |-> location, header |-> header, body |-> body]

\* http.Redirect(w, r, u.String(), status)
Redirect(u, status) == Response(status, String(u), EmptyValues, EmptyValues)

\* The JSON body written with the no-cache headers (status 200).
JSON(body) ==
    Response(200, EmptyString,
        setQueryPairs(EmptyValues,
            <<"Content-Type", "application/json",
              "Cache-Control", "no-store",
              "Pragma", "no-cache">>),
        body)

\* ErrorQuery that reports every error as server_error.
ErrorQuery_ServerError(query, err) ==
    setQueryPairs(query,
        <<"error", ErrorCodeServerError,
          "error_description", Error(err),
          "error_uri", "">>)

\* The error fields set on a redirect's query or fragment.
ErrorQuery(query, err) ==
    IF err.kind = "ServerError"
        THEN setQueryPairs(query,
                <<"error", err.code,
                  "error_description", err.description,
                  "error_uri", err.uri>>)
    ELSE setQueryPairs(query,
                <<"error", ErrorCodeAccessDenied,
                  "error_description", Error(err),
                  "error_uri", "">>)

\* The redirect to u that ends AuthCodeRedirect and ImplicitRedirect.
RedirectTo(req, u, st) ==
    [req |-> [req EXCEPT !.RedirectURI = u], resp |-> Redirect(u, 302), st |-> st]

\* The query of the code flow's redirect, c being what CreateAuthCode returned
\* (or the error the call was given).
CodeQuery(query, c) ==
    IF c.err = NoErr THEN Set(query, "code", c.code)
    ELSE ErrorQuery(query, c.err)

\* OAuthRequest.AuthCodeRedirect(w, r, err) after the store call.
AuthCodeRedirectWith(req, c) ==
    RedirectTo(req,
        [req.RedirectURI EXCEPT !.RawQuery =
            CodeQuery(setQueryPairs(req.RedirectURI.RawQuery,
                        <<"state", req.State>>), c)],
        c.st)

\* OAuthRequest.AuthCodeRedirect(w, r, err): [req, resp, st].
AuthCodeRedirect(req, err, st) ==
    AuthCodeRedirectWith(req,
        IF err = NoErr THEN CreateAuthCode(st, req)
        ELSE [code |-> "", err |-> err, st |-> st])

\* ExpiryQuery that never adds expires_in.
ExpiryQuery_Never(query, expiry) == query

\* expires_in is added when the expiry is positive.
ExpiryQuery(query, expiry) ==
    IF expiry > 0 THEN setQueryPairs(query, <<"expires_in", ToString(expiry)>>)
    ELSE query

\* The fragment of the implicit flow's redirect.  err is the error the call
\* was given and c what CreateImplicitAccessToken returned: the err assigned
\* inside the "if err == nil" block is a new variable of that block, so c.err
\* is never reported.
FragmentQuery(query, err, c) ==
    IF err = NoErr
        THEN IF c.err = NoErr
                THEN ExpiryQuery(
                        setQueryPairs(query,
                            <<"token", c.token, "token_type", c.token_type>>),
                        c.expiry)
             ELSE query
    ELSE ErrorQuery(query, err)

\* ImplicitRedirectWith that encodes the fields in the query.
ImplicitRedirectWith_InQuery(req, err, c) ==
    RedirectTo(req,
        [req.RedirectURI EXCEPT !.RawQuery =
            FragmentQuery(setQueryPairs(req.RedirectURI.RawQuery,
                            <<"state", req.State>>), err, c)],
        c.st)

\* OAuthRequest.ImplicitRedirect(w, r, err) after the store call.  The fragment
\* of a validated redirect URI is empty, so url.ParseQuery never fails.
ImplicitRedirectWith(req, err, c) ==
    RedirectTo(req,
        [req.RedirectURI EXCEPT !.Fragment =
            FragmentQuery(setQueryPairs(req.RedirectURI.Fragment,
                            <<"state", req.State>>), err, c)],
        c.st)

\* ImplicitRedirect that asks the store for a token whatever err is.
ImplicitRedirect_Always(req, err, st) ==
    ImplicitRedirectWith(req, err, CreateImplicitAccessToken(st, req))

\* OAuthRequest.ImplicitRedirect(w, r, err): [req, resp, st].
ImplicitRedirect(req, err, st) ==
    ImplicitRedirectWith(req, err,
        IF err = NoErr THEN CreateImplicitAccessToken(st, req)
        ELSE TokenFailure(err, st))

----------------------------------------------------------------------------
(* Server.HandleOAuthRequest *)

\* ValidateRequired with the test of an earlier revision, which no response
\* type passes.
ValidateRequired_OrTest(req) ==
    IF req.ClientID = ""
        THEN NewError(ErrorCodeInvalidRequest, "The \"client_id\" parameter is missing.")
    ELSE IF req.ResponseType = ""
        THEN NewError(ErrorCodeInvalidRequest, "The \"response_type\" parameter is missing.")
    ELSE IF req.ResponseType # "code" \/ req.ResponseType # "token"
        THEN NewError(ErrorCodeUnsupportedResponseType,
                "The response type " \o Quoted(req.ResponseType) \o " is not supported.")
    ELSE NoErr

\* ValidateRequired without the client_id check.
ValidateRequired_NoClientCheck(req) ==
    IF req.ResponseType = ""
        THEN NewError(ErrorCodeInvalidRequest, "The \"response_type\" parameter is missing.")
    ELSE IF ~(req.ResponseType = "code" \/ req.ResponseType = "token")
        THEN NewError(ErrorCodeUnsupportedResponseType,
                "The response type " \o Quoted(req.ResponseType) \o " is not supported.")
    ELSE NoErr

\* Step 2: validate required parameters.
ValidateRequired(req) ==
    IF req.ClientID = ""
        THEN NewError(ErrorCodeInvalidRequest, "The \"client_id\" parameter is missing.")
    ELSE IF req.ResponseType = ""
        THEN NewError(ErrorCodeInvalidRequest, "The \"response_type\" parameter is missing.")
    ELSE IF ~(req.ResponseType = "code" \/ req.ResponseType = "token")
        THEN NewError(ErrorCodeUnsupportedResponseType,
                "The response type " \o Quoted(req.ResponseType) \o " is not supported.")
    ELSE NoErr

\* Step 3, v being what validateRedirectURI returned.
\* SetRedirectURI that stores the parsed URL before looking at the error.
SetRedirectURI_KeepURL(req, v) ==
    IF v.err = NoErr
        THEN [req |-> [req EXCEPT !.RedirectURI = v.u], err |-> NoErr]
    ELSE IF req.redirectURI_raw = EmptyString
        THEN [req |-> req,
              err |-> NewError(ErrorCodeInvalidRequest, "Missing redirection URI.")]
    ELSE [req |-> [req EXCEPT !.RedirectURI = v.u],
          err |-> NewError(ErrorCodeInvalidRequest, Error(v.err))]

SetRedirectURI(req, v) ==
    IF v.err = NoErr
        THEN [req |-> [req EXCEPT !.RedirectURI = v.u], err |-> NoErr]
    ELSE IF req.redirectURI_raw = EmptyString
        THEN [req |-> req,
              err |-> NewError(ErrorCodeInvalidRequest, "Missing redirection URI.")]
    ELSE [req |-> req, err |-> NewError(ErrorCodeInvalidRequest, Error(v.err))]

\* LoadRedirectURI that resolves the redirect URI whatever step 2 found,
\* keeping step 2's error.
LoadRedirectURI_Always(req, err) ==
    IF err = NoErr
        THEN SetRedirectURI(req, validateRedirectURI(req.redirectURI_raw))
    ELSE [req |-> SetRedirectURI(req, validateRedirectURI(req.redirectURI_raw)).req,
          err |-> err]

\* Step 3: validate the redirection URI: [req, err].
LoadRedirectURI(req, err) ==
    IF err = NoErr
        THEN SetRedirectURI(req, validateRedirectURI(req.redirectURI_raw))
    ELSE [req |-> req, err |-> err]

\* The response r written by a redirect, as the list of responses.
Written(r) == [req |-> r.req, resp |-> <<r.resp>>, st |-> r.st]

\* Step 5.1: redirect now with the error: [req, resp, st].
RedirectWithError(req, err, st) ==
    IF err # NoErr
        THEN Written(IF req.ResponseType = "code"
                        THEN AuthCodeRedirect(req, err, st)
                     ELSE ImplicitRedirect(req, err, st))
    ELSE [req |-> req, resp |-> <<>>, st |-> st]

\* AuthMethod with the two flows exchanged.
AuthMethod_Swapped(req) ==
    IF req.ResponseType = "code" THEN "AuthorizeImplicit" ELSE "Authorize"

\* Step 5.2: the method of the auth handler the request is passed to.
AuthMethod(req) ==
    IF req.ResponseType = "code" THEN "Authorize" ELSE "AuthorizeImplicit"

\* Step 5.2: pass the request to the auth handler and return nil; s5 is what
\* step 5.1 left.
PassToAuthHandler(s5) ==
    [req |-> s5.req, ret |-> NoErr, resp |-> s5.resp,
     auth |-> <<[method |-> AuthMethod(s5.req), req |-> s5.req]>>,
     st |-> s5.st]

\* AbortOrRedirect whose step 4 returns nil.
AbortOrRedirect_ReturnsNil(s3, st) ==
    IF s3.req.RedirectURI = NilURL
        THEN [req |-> s3.req, ret |-> NoErr, resp |-> <<>>,
              auth |-> <<>>, st |-> st]
    ELSE PassToAuthHandler(RedirectWithError(s3.req, s3.err, st))

\* Steps 4 and 5, s3 being what step 3 left.
AbortOrRedirect(s3, st) ==
    IF s3.req.RedirectURI = NilURL
        THEN [req |-> s3.req, ret |-> s3.err, resp |-> <<>>,
              auth |-> <<>>, st |-> st]
    ELSE PassToAuthHandler(RedirectWithError(s3.req, s3.err, st))

\* The whole handler on the request built by NewOAuthRequest:
\* [req, ret, resp, auth, st], where ret is the returned error, resp the
\* responses written and auth the calls made to the auth handler.
HandleOAuthRequest(req0, st) ==
    AbortOrRedirect(LoadRedirectURI(req0, ValidateRequired(req0)), st)

----------------------------------------------------------------------------
(* Server.HandleAccessTokenRequest *)

\* ValidateTokenRequest that looks at the grant type's value first.
ValidateTokenRequest_GrantFirst(req) ==
    IF req.GrantType # "authorization_code"
        THEN NewError(ErrorCodeUnsupportedGrantType,
                "The grant type " \o Quoted(req.GrantType) \o " is not supported.")
    ELSE IF req.Code = ""
        THEN NewError(ErrorCodeInvalidRequest, "The \"code\" parameter is missing.")
    ELSE IF req.RedirectURI = EmptyString
        THEN NewError(ErrorCodeInvalidRequest, "The \"redirect_uri\" parameter is missing.")
    ELSE NoErr

\* Step 2 of HandleAccessTokenRequest.
ValidateTokenRequest(req) ==
    IF req.GrantType = ""
        THEN NewError(ErrorCodeInvalidRequest, "The \"grant_type\" parameter is missing.")
    ELSE IF req.Code = ""
        THEN NewError(ErrorCodeInvalidRequest, "The \"code\" parameter is missing.")
    ELSE IF req.RedirectURI = EmptyString
        THEN NewError(ErrorCodeInvalidRequest, "The \"redirect_uri\" parameter is missing.")
    ELSE IF req.GrantType # "authorization_code"
        THEN NewError(ErrorCodeUnsupportedGrantType,
                "The grant type " \o Quoted(req.GrantType) \o " is not supported.")
    ELSE NoErr

\* ErrorBody with the code and the description in each other's field.
ErrorBody_Swapped(e) ==
    [k \in {"error", "error_description", "error_uri"} |->
        IF k = "error" THEN e.description
        ELSE IF k = "error_description" THEN e.code
        ELSE e.uri]

\* The map that is encoded as the JSON body of an error.
ErrorBody(e) ==
    [k \in {"error", "error_description", "error_uri"} |->
        IF k = "error" THEN e.code
        ELSE IF k = "error_description" THEN e.description
        ELSE e.uri]

\* The map that is encoded as the JSON body of a success.
TokenBody(c) ==
    [k \in {"token", "token_type"} \cup (IF c.expiry # 0 THEN {"expires_in"} ELSE {}) |->
        IF k = "token" THEN c.token
        ELSE IF k = "token_type" THEN c.token_type
        ELSE ToString(c.expiry)]

\* Steps 3 and 4, c being what the validation or the store call left.
WriteTokenResponse(c) ==
    [ret |-> NoErr,
     resp |-> <<JSON(IF c.err = NoErr THEN TokenBody(c)
                     ELSE ErrorBody(InterpretError(c.err)))>>,
     st |-> c.st, err |-> c.err]

\* The whole handler: [ret, resp, st, err], err being the error reported.
HandleAccessTokenRequest(req, st) ==
    WriteTokenResponse(
        IF ValidateTokenRequest(req) = NoErr THEN CreateAccessToken(st, req)
        ELSE TokenFailure(ValidateTokenRequest(req), st))

----------------------------------------------------------------------------
(* Server.masterHandlerImpl *)

\* The query of a request sent to MasterHandler.
Query(client_id, response_type, redirect_uri, scope, state, grant_type, code) ==
    [client_id |-> client_id, response_type |-> response_type,
     redirect_uri |-> redirect_uri, scope |-> scope, state |-> state,
     grant_type |-> grant_type, code |-> code]

\* A request without query string.
NoQuery == Query("", "", EmptyString, "", "", "", "")

\* Server.NewOAuthRequest
NewOAuthRequest(v) ==
    OAuthRequest(v.client_id, v.response_type, v.redirect_uri, v.scope, v.state)

\* Server.NewAccessTokenRequest
NewAccessTokenRequest(v) ==
    AccessTokenRequest(v.grant_type, v.code, v.redirect_uri)

\* Which handler masterHandlerImpl gives the request to.
IsOAuthRequest(v) == v.response_type # ""

\* MasterError that writes nothing.
MasterError_Silent(err) == <<>>

\* The response masterHandlerImpl adds when the handler returned err.
MasterError(err) ==
    IF err # NoErr THEN <<JSON(ErrorBody(InterpretError(err)))>> ELSE <<>>

\* masterHandlerImpl after HandleOAuthRequest returned out.
MasterOAuth(out) ==
    [req |-> out.req, treq |-> [none |-> TRUE], err |-> out.ret,
     ret |-> out.ret, resp |-> out.resp \o MasterError(out.ret),
     auth |-> out.auth, st |-> out.st]

\* masterHandlerImpl after HandleAccessTokenRequest returned out.
MasterToken(treq, out) ==
    [req |-> [none |-> TRUE], treq |-> treq, err |-> out.err, ret |-> out.ret,
     resp |-> out.resp \o MasterError(out.ret), auth |-> <<>>, st |-> out.st]

\* The whole handler: [req, treq, err, ret, resp, auth, st].
masterHandlerImpl(v, st) ==
    IF IsOAuthRequest(v)
        THEN MasterOAuth(HandleOAuthRequest(NewOAuthRequest(v), st))
    ELSE MasterToken(NewAccessTokenRequest(v),
            HandleAccessTokenRequest(NewAccessTokenRequest(v), st))

----------------------------------------------------------------------------
(* Server.VerifyToken and Server.TokenVerifier *)

\* The rest of VerifyToken once the Authorization field is known to be
\* present: err is the function's named result, which nothing has assigned
\* yet, and v what ValidateAccessToken returned.
VerifyTokenWith(err, v) ==
    IF err # NoErr THEN InterpretError(v.err)
    ELSE IF ~v.ok
        THEN NewError(ErrorCodeInvalidToken, "The Access Token is invalid.")
    ELSE NoErr

\* VerifyToken that asks the store before looking at the header.
VerifyToken_StoreFirst(authField, st) ==
    VerifyTokenWith(NoErr, ValidateAccessToken(st, authField))

\* Server.VerifyToken, authField being the request's Authorization header.
VerifyToken(authField, st) ==
    IF authField = ""
        THEN NewError(ErrorCodeInvalidRequest,
                "The \"Authorization\" header field is missing.")
    ELSE VerifyTokenWith(NoErr, ValidateAccessToken(st, authField))

\* The body TokenVerifier writes after the 401 header: err.Error().
Unauthorized(err) ==
    Response(401, EmptyString, EmptyValues, [k \in {"text"} |-> Error(err)])

\* TokenVerifierWith that runs the wrapped handler whatever err is.
TokenVerifierWith_Serves(err) ==
    IF err # NoErr
        THEN [ret |-> err, resp |-> <<Unauthorized(err)>>, served |-> TRUE]
    ELSE [ret |-> NoErr, resp |-> <<>>, served |-> TRUE]

\* The handler TokenVerifier returns, err being what VerifyToken returned:
\* [ret, resp, served], served telling whether the wrapped handler ran.
TokenVerifierWith(err) ==
    IF err # NoErr
        THEN [ret |-> err, resp |-> <<Unauthorized(err)>>, served |-> FALSE]
    ELSE [ret |-> NoErr, resp |-> <<>>, served |-> TRUE]

\* The store as VerifyToken leaves it: ValidateAccessToken is called when
\* the Authorization field is present.
VerifyTokenStore(authField, st) ==
    IF authField = "" THEN st ELSE ValidateAccessToken(st, authField).st

\* What the handler did, with the store it left.
WithStore(out, st) ==
    [ret |-> out.ret, resp |-> out.resp, served |-> out.served, st |-> st]

\* [ret, resp, served, st]
TokenVerifier(authField, st) ==
    WithStore(TokenVerifierWith(VerifyToken(authField, st)),
              VerifyTokenStore(authField, st))

----------------------------------------------------------------------------
(* authhandler.ApprovalList *)

\* NewWhiteList(list...): auto-deny by default, the listed names are valid.
NewWhiteList(list) == [Default |-> FALSE, List |-> [name \in list |-> TRUE]]

\* NewBlackList that enters the listed names as valid.
NewBlackList_Allowing(list) == [Default |-> TRUE, List |-> [name \in list |-> TRUE]]

\* NewBlackList(list...): auto-allow by default, the listed names are not valid.
NewBlackList(list) == [Default |-> TRUE, List |-> [name \in list |-> FALSE]]

\* valid, ok := a.List[oar.ClientID]; if !ok { valid = a.Default }
Valid(a, clientID) ==
    IF clientID \in DOMAIN a.List THEN a.List[clientID] ELSE a.Default

\* The error Authorize and AuthorizeImplicit complete the flow with.
ApprovalError(a, clientID) ==
    IF ~Valid(a, clientID)
        THEN NewServerError(ErrorCodeAccessDenied, "access denied", "")
    ELSE NoErr

\* The clients of a server with an ApprovalList and the lists it may be
\* built with.
ApprovalClients == {"client1", "client2"}
ApprovalLists ==
    {NewWhiteList(list) : list \in SUBSET ApprovalClients}
        \cup {NewBlackList(list) : list \in SUBSET ApprovalClients}

----------------------------------------------------------------------------
(* ClientStore and StoreImpl.GetClient *)

\* A ClientStore: the client IDs it holds valid, and the error its ValidClient
\* answers with (NoErr when the lookup works).
NewBasicClientStore == [list |-> {}, err |-> NoErr]

\* BasicClientStore.AddClient
AddClient(cs, clientID) == [cs EXCEPT !.list = @ \cup {clientID}]

\* ClientStore.ValidClient.  A BasicClientStore never fails; another
\* implementation of the interface may answer with an error.
ValidClient(cs, clientID) ==
    IF cs.err # NoErr THEN [valid |-> FALSE, err |-> cs.err]
    ELSE [valid |-> clientID \in cs.list, err |-> NoErr]

\* The nil Client.
NoClient == [id |-> "", ctype |-> "nil"]

NewClient(id, clientType) == [id |-> id, ctype |-> clientType]

\* StoreImpl.GetClient
GetClient(cs, clientID) ==
    IF ValidClient(cs, clientID).err # NoErr
        THEN [client |-> NoClient, err |-> ValidClient(cs, clientID).err]
    ELSE IF ValidClient(cs, clientID).valid
        THEN [client |-> NewClient(clientID, "public"), err |-> NoErr]
    ELSE [client |-> NoClient,
          err |-> NewServerError(ErrorCodeUnauthorizedClient,
                                 "ClientID not valid.", "")]

\* The client stores a server is built with: a BasicClientStore holding some
\* of the clients, or a store whose lookup fails.
ClientStores ==
    {[list |-> l, err |-> e] :
        l \in SUBSET ApprovalClients, e \in {NoErr, PlainError("store down")}}

----------------------------------------------------------------------------
(* State *)

VARIABLES
    query,          \* the parameters of this run's authorization requests
    AuthCodes,      \* BasicAuthCache.AuthCodes: code -> CacheEntry
    AccessTokens,   \* BasicAuthCache.AccessTokens: token -> CacheEntry
    timers,         \* the DelayedDelete goroutines that have not fired yet
    randNext,       \* how many strings were received from RandStr, plus one
    pend,           \* the requests the auth handler holds and has not completed
    exchanged,      \* per code, how many CreateAccessToken calls it has satisfied
    issued,         \* the codes and the tokens registered so far
    access,         \* the map accesses of BasicAuthCache that are under way
    redis,          \* the Redis server's keys and the RedisAuthCache calls under way
    redirecter,     \* the Redirecter auth handler's URLs and its calls under way
    approval,       \* the ApprovalList the server was given as auth handler
    Clients,        \* StoreImpl.Clients: the ClientStore
    randstr,        \* the RandStr channel and its goroutines
    clock,          \* the time, and the DelayedDelete goroutines with the time they wake at
    last            \* the call in progress: what it was given and what it did

vars ==
    <<query, AuthCodes, AccessTokens, timers, randNext, pend, exchanged, issued,
      access, redis, redirecter, approval, Clients, randstr, clock, last>>

\* The store value the operators work on.
Store ==
    [AuthCodes |-> AuthCodes, AccessTokens |-> AccessTokens,
     timers |-> timers, rand |-> randNext, up |-> TRUE]

\* The store value of a call during which the backend answers (up) or not.
StoreWhen(up) == [Store EXCEPT !.up = up]

\* The call leaves the store as st; what it registered is added to issued.
SetStore(st) ==
    /\ AuthCodes' = st.AuthCodes
    /\ AccessTokens' = st.AccessTokens
    /\ timers' = st.timers
    /\ randNext' = st.rand
    /\ issued' = [codes |-> issued.codes \cup DOMAIN st.AuthCodes,
                  tokens |-> issued.tokens \cup DOMAIN st.AccessTokens]

\* No request of that kind in the call.
NoRequest == [none |-> TRUE]

\* The record of a call.  req is the OAuthRequest as the call left it, treq
\* the AccessTokenRequest, err the error given to or reported by the call,
\* ret the value returned, resp the responses written, auth the auth-handler
\* calls made; preCodes and preTokens are the cache maps before the call and
\* preTimers the DelayedDelete goroutines then waiting.
\* up tells whether the backend answered during the call; authField and
\* served are the Authorization header given to TokenVerifier and whether
\* the wrapped handler ran.
Call(op, req, treq, err, ret, resp, auth) ==
    [op |-> op, req |-> req, treq |-> treq, err |-> err, ret |-> ret,
     resp |-> resp, auth |-> auth,
     preCodes |-> AuthCodes, preTokens |-> AccessTokens, preTimers |-> timers,
     up |-> TRUE, authField |-> "", served |-> FALSE]

\* No call in progress.
Idle ==
    [op |-> "idle", req |-> NoRequest, treq |-> NoRequest, err |-> NoErr,
     ret |-> NoErr, resp |-> <<>>, auth |-> <<>>,
     preCodes |-> EmptyValues, preTokens |-> EmptyValues, preTimers |-> {},
     up |-> TRUE, authField |-> "", served |-> FALSE]

\* The parameter values a request may carry.
ClientIDs == {"", "client1"}
ResponseTypes == {"", "code", "token", "blah"}
Scopes == {"", "read"}
States == {"", "s1"}
GrantTypes == {"", "authorization_code", "password"}
\* A code parameter: missing, any string RandStr hands out, or a made-up one.
Codes == {""} \cup {RandStr(n) : n \in 1..MaxIds} \cup {"bogus"}
\* The redirect_uri strings presented to the token endpoint.
TokenRedirectStrings == {EmptyString, UriPlain, UriUpper, UriQuery}
\* The Authorization header of a request for a protected resource: missing,
\* any string RandStr hands out, or a made-up one.
AuthorizationFields == Codes
\* What the auth handler may complete a flow with.
HandlerErrors ==
    {NoErr,
     NewServerError(ErrorCodeAccessDenied, "access denied", ""),
     PlainError("login failed")}

\* The authorization requests clients may send (without token parameters).
AuthorizationQueries ==
    {Query(c, t, u, sc, s, "", "") :
        c \in ClientIDs, t \in ResponseTypes, u \in RedirectStrings,
        sc \in Scopes, s \in States}

\* The token requests clients may send.
TokenQueries ==
    {Query("", "", u, "", "", g, c) :
        u \in TokenRedirectStrings, g \in GrantTypes, c \in Codes}

Init ==
    /\ query \in AuthorizationQueries
    /\ AuthCodes = EmptyValues
    /\ AccessTokens = EmptyValues
    /\ timers = {}
    /\ randNext = 1
    /\ pend = <<>>
    /\ exchanged = EmptyValues
    /\ issued = [codes |-> {}, tokens |-> {}]
    /\ access = {}
    /\ redis = [db |-> EmptyValues, calls |-> {}]
    /\ redirecter = [AuthCode |-> NoQuery, Implicit |-> NoQuery, calls |-> {}]
    /\ approval = NewWhiteList({})
    /\ Clients = AddClient(NewBasicClientStore, "client1")
    /\ randstr = [written |-> 0, waiting |-> {}, got |-> <<>>]
    /\ clock = [now |-> 0, due |-> {}, latest |-> <<>>, regs |-> 0]
    /\ last = Idle

----------------------------------------------------------------------------
(* Steps *)

\* A counter map read at a key that may be absent.
Get0(m, key) == IF key \in DOMAIN m THEN m[key] ELSE 0

\* Remove the i-th element of a sequence.
RemoveAt(q, i) == [j \in 1..(Len(q) - 1) |-> IF j < i THEN q[j] ELSE q[j + 1]]

\* The count of successful exchanges after a call for code that ended with err.
CountExchange(treq, err) ==
    IF treq # NoRequest /\ err = NoErr
        THEN Put(exchanged, treq.Code, Get0(exchanged, treq.Code) + 1)
    ELSE exchanged

\* The embedding application calls Server.HandleOAuthRequest on a request.
HandleOAuthRequestCall ==
    /\ last = Idle
    /\ \E out \in {HandleOAuthRequest(NewOAuthRequest(query), Store)} :
           /\ Len(pend) + Len(out.auth) <= MaxPending
           /\ out.st.rand <= MaxIds + 1
           /\ SetStore(out.st)
           /\ pend' = pend \o out.auth
           /\ last' = Call("HandleOAuthRequest", out.req, NoRequest,
                           out.ret, out.ret, out.resp, out.auth)
    /\ UNCHANGED <<query, exchanged, access, redis, redirecter, approval, Clients,
                   randstr, clock>>

\* A request arrives at MasterHandler: an authorization request of this run,
\* or a token request.
MasterHandlerCall ==
    /\ last = Idle
    /\ \E v \in {query} \cup TokenQueries, up \in BOOLEAN :
        \E out \in {masterHandlerImpl(v, StoreWhen(up))} :
            /\ Len(pend) + Len(out.auth) <= MaxPending
            /\ out.st.rand <= MaxIds + 1
            /\ SetStore(out.st)
            /\ pend' = pend \o out.auth
            /\ exchanged' = CountExchange(out.treq, out.err)
            /\ last' = [Call("MasterHandler", out.req, out.treq,
                             out.err, out.ret, out.resp, out.auth)
                            EXCEPT !.up = up]
    /\ UNCHANGED <<query, access, redis, redirecter, approval, Clients, randstr,
                   clock>>

\* The auth handler completes a code-flow request: oar.AuthCodeRedirect(w, r, err).
AuthCodeRedirectCall ==
    /\ last = Idle
    /\ \E i \in 1..Len(pend), err \in HandlerErrors, up \in BOOLEAN :
        /\ pend[i].method = "Authorize"
        /\ \E out \in {AuthCodeRedirect(pend[i].req, err, StoreWhen(up))} :
               /\ out.st.rand <= MaxIds + 1
               /\ SetStore(out.st)
               /\ last' = [Call("AuthCodeRedirect", out.req, NoRequest,
                                err, NoErr, <<out.resp>>, <<>>)
                               EXCEPT !.up = up]
        /\ pend' = RemoveAt(pend, i)
    /\ UNCHANGED <<query, exchanged, access, redis, redirecter, approval, Clients,
                   randstr, clock>>

\* The auth handler completes an implicit-flow request: oar.ImplicitRedirect(w, r, err).
ImplicitRedirectCall ==
    /\ last = Idle
    /\ \E i \in 1..Len(pend), err \in HandlerErrors, up \in BOOLEAN :
        /\ pend[i].method = "AuthorizeImplicit"
        /\ \E out \in {ImplicitRedirect(pend[i].req, err, StoreWhen(up))} :
               /\ out.st.rand <= MaxIds + 1
               /\ SetStore(out.st)
               /\ last' = [Call("ImplicitRedirect", out.req, NoRequest,
                                err, NoErr, <<out.resp>>, <<>>)
                               EXCEPT !.up = up]
        /\ pend' = RemoveAt(pend, i)
    /\ UNCHANGED <<query, exchanged, access, redis, redirecter, approval, Clients,
                   randstr, clock>>

\* A request for a protected resource arrives at the handler TokenVerifier
\* returned.
TokenVerifierCall ==
    /\ last = Idle
    /\ \E authField \in AuthorizationFields, up \in BOOLEAN :
        \E out \in {TokenVerifier(authField, StoreWhen(up))} :
            /\ SetStore(out.st)
            /\ last' = [Call("TokenVerifier", NoRequest, NoRequest,
                             out.ret, out.ret, out.resp, <<>>)
                            EXCEPT !.up = up, !.authField = authField,
                                   !.served = out.served]
    /\ UNCHANGED <<query, pend, exchanged, access, redis, redirecter, approval,
                   Clients, randstr, clock>>

\* The DelayedDelete goroutine t wakes up after its delay and deletes its key.
DelayedDeleteOf(t) ==
    /\ last = Idle
    /\ t \in timers
    /\ AuthCodes' = IF t.m = "AuthCodes" THEN Delete(AuthCodes, t.key)
                    ELSE AuthCodes
    /\ AccessTokens' = IF t.m = "AccessTokens" THEN Delete(AccessTokens, t.key)
                       ELSE AccessTokens
    /\ timers' = timers \ {t}
    /\ last' = Call("DelayedDelete", NoRequest, NoRequest,
                    NoErr, NoErr, <<>>, <<>>)
    /\ UNCHANGED <<query, randNext, pend, exchanged, issued, access, redis,
                   redirecter, approval, Clients, randstr, clock>>

\* A DelayedDelete goroutine wakes up after its delay and deletes its key.
DelayedDelete == \E t \in timers : DelayedDeleteOf(t)

\* The call in progress returns; its record is dropped.
Return ==
    /\ last # Idle
    /\ last' = Idle
    /\ UNCHANGED <<query, AuthCodes, AccessTokens, timers, randNext, pend,
                   exchanged, issued, access, redis, redirecter, approval,
                   Clients, randstr, clock>>

Next ==
    \/ HandleOAuthRequestCall
    \/ MasterHandlerCall
    \/ AuthCodeRedirectCall
    \/ ImplicitRedirectCall
    \/ TokenVerifierCall
    \/ DelayedDelete
    \/ Return

Spec == Init /\ [][Next]_vars

\* The DelayedDelete goroutines a run may start.
AllTimers ==
    {Timer("AuthCodes", RandStr(n), CodeExpiry) : n \in 1..MaxIds}
        \cup {Timer("AccessTokens", RandStr(n), TokenExpiry) : n \in 1..MaxIds}

\* A server that receives one client's code-flow or implicit-flow requests.
LiveInit ==
    /\ Init
    /\ query \in {Query("client1", "code", UriPlain, "", "s1", "", ""),
                  Query("client1", "token", UriPlain, "", "s1", "", "")}

\* The server's behaviours in which a handler that was called returns and a
\* DelayedDelete goroutine whose delay is over gets to run, whatever requests
\* arrive in between.
LiveSpec ==
    /\ LiveInit
    /\ [][Next]_vars
    /\ WF_vars(Return)
    /\ \A t \in AllTimers : SF_vars(DelayedDeleteOf(t))

----------------------------------------------------------------------------
(* BasicAuthCache under concurrent requests *)

\* net/http serves every request on a goroutine of its own: how many of them
\* are inside the server at the same time.
MaxHandlers == 2

\* A goroutine: the n-th request handler, or the DelayedDelete started for key.
Goroutine(kind, n, key) == [kind |-> kind, n |-> n, key |-> key]

\* An access of goroutine g to map m of the cache that has begun and not
\* ended; write tells whether it assigns to or deletes from the map.
Access(g, op, m, key, write) ==
    [g |-> g, op |-> op, m |-> m, key |-> key, write |-> write]

\* The runtime has stopped the program on a concurrent map access.
FatalError == Access(Goroutine("runtime", 0, ""), "fatal", "", "", FALSE)

\* The two maps of a BasicAuthCache and the keys they may hold.
Maps == {"AuthCodes", "AccessTokens"}
Keys == {RandStr(n) : n \in 1..MaxIds}

\* The request handlers that are not inside a cache call.
IdleHandlers ==
    {Goroutine("handler", n, "") : n \in 1..MaxHandlers} \ {a.g : a \in access}

\* a overlaps an access of another goroutine to the same map and one of the
\* two writes.  The cache has no lock and the goroutines do not synchronise,
\* so this is a data race.
Racing(a) == \E b \in access \ {a} : b.m = a.m /\ (a.write \/ b.write)

\* How an access may end.  A racing access has no defined outcome: it may
\* take effect, be lost, or stop the program.
Outcomes(a) == IF Racing(a) THEN {"done", "lost", "fatal"} ELSE {"done"}

\* The map after access a has taken effect on it.
Effect(a, map) ==
    IF a.op = "Register"
        THEN Put(map, a.key, CacheEntry("client1", "", EmptyString))
    ELSE IF a.op = "DelayedDelete" THEN Delete(map, a.key)
    ELSE map

\* Access a ends with the given outcome.
AccessEnds(a, outcome) ==
    /\ AuthCodes' = IF a.m = "AuthCodes" /\ outcome = "done"
                        THEN Effect(a, AuthCodes) ELSE AuthCodes
    /\ AccessTokens' = IF a.m = "AccessTokens" /\ outcome = "done"
                        THEN Effect(a, AccessTokens) ELSE AccessTokens
    /\ access' = IF outcome = "fatal" THEN {FatalError} ELSE access \ {a}

\* A handler enters RegisterAuthCode or RegisterAccessToken with a string
\* fresh from RandStr and begins the assignment to the map.
RegisterBegin ==
    /\ FatalError \notin access
    /\ randNext <= MaxIds
    /\ \E g \in IdleHandlers, m \in Maps :
        access' = access \cup {Access(g, "Register", m, RandStr(randNext), TRUE)}
    /\ randNext' = randNext + 1
    /\ UNCHANGED <<query, AuthCodes, AccessTokens, timers, pend, exchanged,
                   issued, redis, last, redirecter, approval, Clients,
                   randstr, clock>>

\* The assignment ends, the DelayedDelete goroutine is started and the
\* handler returns.
RegisterEnd ==
    /\ \E a \in access :
        /\ a.op = "Register"
        /\ \E outcome \in Outcomes(a) :
            /\ AccessEnds(a, outcome)
            /\ timers' = IF outcome = "fatal" THEN timers
                         ELSE timers \cup
                            {Timer(a.m, a.key,
                                IF a.m = "AuthCodes" THEN CodeExpiry ELSE TokenExpiry)}
    /\ UNCHANGED <<query, randNext, pend, exchanged, issued, redis, last,
                   redirecter, approval, Clients, randstr, clock>>

\* A handler enters LookupAuthCode or LookupAccessToken and begins to read
\* the map.
LookupBegin ==
    /\ FatalError \notin access
    /\ \E g \in IdleHandlers, m \in Maps, key \in Keys :
        access' = access \cup {Access(g, "Lookup", m, key, FALSE)}
    /\ UNCHANGED <<query, AuthCodes, AccessTokens, timers, randNext, pend,
                   exchanged, issued, redis, last, redirecter, approval,
                   Clients, randstr, clock>>

\* The read ends and the handler returns.
LookupEnd ==
    /\ \E a \in access :
        /\ a.op = "Lookup"
        /\ \E outcome \in Outcomes(a) \ {"lost"} : AccessEnds(a, outcome)
    /\ UNCHANGED <<query, timers, randNext, pend, exchanged, issued, redis, last,
                   redirecter, approval, Clients, randstr, clock>>

\* The delay of a DelayedDelete goroutine is over: it begins delete(m, key).
DelayedDeleteBegin ==
    /\ FatalError \notin access
    /\ \E t \in timers :
        /\ timers' = timers \ {t}
        /\ access' = access \cup
            {Access(Goroutine("DelayedDelete", 0, t.key), "DelayedDelete",
                    t.m, t.key, TRUE)}
    /\ UNCHANGED <<query, AuthCodes, AccessTokens, randNext, pend, exchanged,
                   issued, redis, last, redirecter, approval, Clients,
                   randstr, clock>>

\* The delete ends and the goroutine exits.
DelayedDeleteEnd ==
    /\ \E a \in access :
        /\ a.op = "DelayedDelete"
        /\ \E outcome \in Outcomes(a) : AccessEnds(a, outcome)
    /\ UNCHANGED <<query, timers, randNext, pend, exchanged, issued, redis, last,
                   redirecter, approval, Clients, randstr, clock>>

\* A server whose requests reach the cache at the same time.
RaceInit ==
    /\ Init
    /\ query = Query("client1", "code", UriPlain, "", "", "", "")

RaceNext ==
    \/ RegisterBegin
    \/ RegisterEnd
    \/ LookupBegin
    \/ LookupEnd
    \/ DelayedDeleteBegin
    \/ DelayedDeleteEnd

RaceSpec == RaceInit /\ [][RaceNext]_vars

----------------------------------------------------------------------------
(* RedisAuthCache *)

\* NewRedisAuthCache's lifetimes, in seconds.
RedisCodeExpiry == 120
RedisTokenExpiry == 3600

codeKey(code) == "code:" \o code
tokenKey(token) == "token:" \o token

\* A RegisterAuthCode or RegisterAccessToken call on the Redis cache: the
\* key it registers, the lifetime it asks for, the command it is about to
\* send ("Set", "Expire") or "returned", and the error it returned.
RedisCall(key, expiry, pc, err) ==
    [key |-> key, expiry |-> expiry, pc |-> pc, err |-> err]

\* A key of the Redis server; ttl = 0: no expiry is set on the key.
RedisEntry(ttl) == [ttl |-> ttl]

\* The call's answer to a finished Expire command: valid tells whether the
\* server found the key.
ExpireReturn(c, valid) ==
    IF valid THEN [c EXCEPT !.pc = "returned"]
    ELSE [c EXCEPT !.pc = "returned",
            !.err = PlainError("Invalid return from setting code expiration.")]

\* A handler enters RegisterAuthCode or RegisterAccessToken with a string
\* fresh from RandStr.
RedisRegisterCall ==
    /\ randNext <= MaxIds
    /\ \E c \in {RedisCall(codeKey(RandStr(randNext)), RedisCodeExpiry, "Set", NoErr),
                 RedisCall(tokenKey(RandStr(randNext)), RedisTokenExpiry, "Set", NoErr)} :
        redis' = [redis EXCEPT !.calls = @ \cup {c}]
    /\ randNext' = randNext + 1
    /\ UNCHANGED <<query, AuthCodes, AccessTokens, timers, pend, exchanged,
                   issued, access, last, redirecter, approval, Clients,
                   randstr, clock>>

\* ac.db.Set(key, val): the server stores the key without expiry, or the
\* command fails and the call returns the error.
RedisSet ==
    /\ \E c \in redis.calls, ok \in BOOLEAN :
        /\ c.pc = "Set"
        /\ redis' =
            IF ok
                THEN [db |-> Put(redis.db, c.key, RedisEntry(0)),
                      calls |-> (redis.calls \ {c}) \cup {[c EXCEPT !.pc = "Expire"]}]
            ELSE [redis EXCEPT !.calls =
                    (@ \ {c}) \cup {[c EXCEPT !.pc = "returned", !.err = BackendError]}]
    /\ UNCHANGED <<query, AuthCodes, AccessTokens, timers, randNext, pend,
                   exchanged, issued, access, last, redirecter, approval,
                   Clients, randstr, clock>>

\* ac.db.Expire(key, expiry): the server sets the key's expiry and the call
\* returns nil, or the command fails and the call returns the error.
RedisExpire ==
    /\ \E c \in redis.calls, ok \in BOOLEAN :
        /\ c.pc = "Expire"
        /\ redis' =
            IF ok /\ c.key \in DOMAIN redis.db
                THEN [db |-> Put(redis.db, c.key, RedisEntry(c.expiry)),
                      calls |-> (redis.calls \ {c}) \cup {ExpireReturn(c, TRUE)}]
            ELSE IF ok
                THEN [redis EXCEPT !.calls = (@ \ {c}) \cup {ExpireReturn(c, FALSE)}]
            ELSE [redis EXCEPT !.calls =
                    (@ \ {c}) \cup {[c EXCEPT !.pc = "returned", !.err = BackendError]}]
    /\ UNCHANGED <<query, AuthCodes, AccessTokens, timers, randNext, pend,
                   exchanged, issued, access, last, redirecter, approval,
                   Clients, randstr, clock>>

\* The server removes a key whose expiry has come.
RedisExpired ==
    /\ \E k \in DOMAIN redis.db :
        /\ redis.db[k].ttl > 0
        /\ redis' = [redis EXCEPT !.db = Delete(@, k)]
    /\ UNCHANGED <<query, AuthCodes, AccessTokens, timers, randNext, pend,
                   exchanged, issued, access, last, redirecter, approval,
                   Clients, randstr, clock>>

RedisNext ==
    \/ RedisRegisterCall
    \/ RedisSet
    \/ RedisExpire
    \/ RedisExpired

\* A server whose store is built on a RedisAuthCache.
RedisSpec == RaceInit /\ [][RedisNext]_vars

----------------------------------------------------------------------------
(* authhandler.Redirecter *)

\* The authorization requests that reach the auth handler at the same time:
\* two clients, either flow.
RedirecterQueries ==
    {Query(c[1], t, UriPlain, "", c[2], "", "") :
        c \in {<<"client1", "s1">>, <<"client2", "s2">>}, t \in {"code", "token"}}

\* What a read of a string that another goroutine is assigning may yield
\* beside the old and the new value: a mix of the two.
TornQuery == Query("?", "?", EmptyString, "?", "?", "", "")

\* The field of the Redirecter a call works on: Authorize takes re.AuthCode,
\* AuthorizeImplicit re.Implicit.  `redirect := re.AuthCode` copies the
\* pointer, so redirect is the Redirecter's own URL.
RedirecterURL(q) == IF q.response_type = "code" THEN "AuthCode" ELSE "Implicit"

\* A call of Authorize or AuthorizeImplicit by handler goroutine g for the
\* request with query q: pc is the statement it is about to execute and resp
\* the redirect it wrote.
RedirecterCallOf(g, q, pc, resp) == [g |-> g, query |-> q, pc |-> pc, resp |-> resp]

\* The other calls that are about to assign the RawQuery of the same URL.
Assigning(c) ==
    {d \in redirecter.calls \ {c} :
        d.pc = "Set" /\ RedirecterURL(d.query) = RedirecterURL(c.query)}

\* The values the call's assignment may leave in RawQuery: its own query, or
\* a mix when another assignment overlaps it.
Assigned(c) == {c.query} \cup (IF Assigning(c) # {} THEN {TornQuery} ELSE {})

\* The values redirect.String() may show to the call: the RawQuery as it is,
\* or, when an assignment overlaps the read, that assignment's value or a mix.
Visible(c) ==
    {redirecter[RedirecterURL(c.query)]}
        \cup {d.query : d \in Assigning(c)}
        \cup (IF Assigning(c) # {} THEN {TornQuery} ELSE {})

\* The handlers that are not inside the Redirecter.
RedirecterIdle == (1..MaxHandlers) \ {c.g : c \in redirecter.calls}

\* The record with c replaced by d among the calls.
RedirecterStep(c, d) == (redirecter.calls \ {c}) \cup {d}

\* HandleOAuthRequest passes a valid request to the Redirecter.
RedirecterCall ==
    /\ \E g \in RedirecterIdle, q \in RedirecterQueries :
        redirecter' = [redirecter EXCEPT
            !.calls = @ \cup {RedirecterCallOf(g, q, "Set", <<>>)}]
    /\ UNCHANGED <<query, AuthCodes, AccessTokens, timers, randNext, pend,
                   exchanged, issued, access, redis, last, approval, Clients,
                   randstr, clock>>

\* redirect.RawQuery = r.URL.RawQuery
RedirecterSet ==
    /\ \E c \in redirecter.calls :
        /\ c.pc = "Set"
        /\ \E v \in Assigned(c) :
            redirecter' = [redirecter EXCEPT
                ![RedirecterURL(c.query)] = v,
                !.calls = RedirecterStep(c, [c EXCEPT !.pc = "Redirect"])]
    /\ UNCHANGED <<query, AuthCodes, AccessTokens, timers, randNext, pend,
                   exchanged, issued, access, redis, last, approval, Clients,
                   randstr, clock>>

\* http.Redirect(w, r, redirect.String(), 303)
RedirecterRedirect ==
    /\ \E c \in redirecter.calls :
        /\ c.pc = "Redirect"
        /\ \E v \in Visible(c) :
            redirecter' = [redirecter EXCEPT
                !.calls = RedirecterStep(c,
                    [c EXCEPT !.pc = "done",
                              !.resp = <<[status |-> 303,
                                          url |-> RedirecterURL(c.query),
                                          RawQuery |-> v]>>])]
    /\ UNCHANGED <<query, AuthCodes, AccessTokens, timers, randNext, pend,
                   exchanged, issued, access, redis, last, approval, Clients,
                   randstr, clock>>

\* The handler returns.
RedirecterReturn ==
    /\ \E c \in redirecter.calls :
        /\ c.pc = "done"
        /\ redirecter' = [redirecter EXCEPT !.calls = @ \ {c}]
    /\ UNCHANGED <<query, AuthCodes, AccessTokens, timers, randNext, pend,
                   exchanged, issued, access, redis, last, approval, Clients,
                   randstr, clock>>

RedirecterNext ==
    \/ RedirecterCall
    \/ RedirecterSet
    \/ RedirecterRedirect
    \/ RedirecterReturn

\* A server whose auth handler is a Redirecter.
RedirecterSpec == RaceInit /\ [][RedirecterNext]_vars

----------------------------------------------------------------------------
(* The RandStr channel, step by step *)
(*                                                                          *)
(* RandomStrings starts one goroutine that, in a loop, writes base to its   *)
(* hash and sends the hex digest on an unbuffered channel.  The n-th digest *)
(* is RandStr(n).  randstr.written counts the writes of the hash; the       *)
(* goroutine is blocked in its send while written = randNext.  The handlers *)
(* in randstr.waiting are blocked in `<-RandStr`; randstr.got lists what    *)
(* was received, in order.                                                  *)

\* The request the auth handler completes in this run.
RandRequest == HandleOAuthRequest(NewOAuthRequest(query), Store).auth[1].req

\* The calls of handler h that reach their `<-RandStr` in the present state:
\* the handler, the operation, its request, and what CreateAccessToken's
\* LookupAuthCode answered before (no lookup in the other two).
Receivers(h) ==
    {[h |-> h, call |-> c, r |-> RandRequest, look |-> NoRequest] :
        c \in {"CreateAuthCode", "CreateImplicitAccessToken"}}
    \cup {[h |-> h, call |-> "CreateAccessToken",
            r |-> AccessTokenRequest("authorization_code", code, UriPlain),
            look |-> LookupAuthCode(Store, code)] :
            code \in {c \in DOMAIN AuthCodes :
                        AuthCodes[c].RedirectURI = UriPlain}}

\* The rest of the operation of receiver w, which receives RandStr(st.rand).
CreateWith(w, st) ==
    IF w.call = "CreateAuthCode" THEN CreateAuthCode(st, w.r)
    ELSE IF w.call = "CreateImplicitAccessToken"
        THEN CreateImplicitAccessToken(st, w.r)
    ELSE ExchangeCode(st, w.r, w.look)

\* The cache map the operation of w registers in.
MapOf(w) == IF w.call = "CreateAuthCode" THEN "AuthCodes" ELSE "AccessTokens"

\* One receive: who received what, for which map, and whether the key was in
\* that map at the time.
Received(w, id) ==
    [h |-> w.h, id |-> id, m |-> MapOf(w),
     live |-> id \in (IF MapOf(w) = "AuthCodes" THEN DOMAIN AuthCodes
                      ELSE DOMAIN AccessTokens)]

\* The goroutine of RandomStrings: hash.Write(base), then it blocks in the
\* send of the digest.
RandGenerate ==
    /\ randstr.written < randNext
    /\ randNext <= MaxIds
    /\ randstr' = [randstr EXCEPT !.written = @ + 1]
    /\ UNCHANGED <<query, AuthCodes, AccessTokens, timers, randNext, pend,
                   exchanged, issued, access, redis, redirecter, approval,
                   Clients, last, clock>>

\* A handler reaches `<-RandStr` and blocks.
RandReceive ==
    /\ \E h \in 1..MaxHandlers :
        /\ \A w \in randstr.waiting : w.h # h
        /\ \E w \in Receivers(h) :
            randstr' = [randstr EXCEPT !.waiting = @ \cup {w}]
    /\ UNCHANGED <<query, AuthCodes, AccessTokens, timers, randNext, pend,
                   exchanged, issued, access, redis, redirecter, approval,
                   Clients, last, clock>>

\* The send meets one of the blocked receives: that handler, and no other,
\* gets the digest, and registers it.
RandDeliver ==
    /\ randstr.written = randNext
    /\ \E w \in randstr.waiting :
        \E out \in {CreateWith(w, Store)} :
            /\ SetStore(out.st)
            /\ randstr' = [randstr EXCEPT
                    !.waiting = @ \ {w},
                    !.got = Append(@, Received(w, RandStr(randNext)))]
    /\ UNCHANGED <<query, pend, exchanged, access, redis, redirecter,
                   approval, Clients, last, clock>>

RandNext ==
    \/ RandGenerate
    \/ RandReceive
    \/ RandDeliver
    \/ DelayedDelete
    \/ Return

\* A server whose handlers receive from RandStr concurrently.
RandSpec == RaceInit /\ [][RandNext]_vars

----------------------------------------------------------------------------
(* BasicAuthCache with a clock *)
(*                                                                          *)
(* The cache is used directly, through the AuthCache interface: the caller  *)
(* chooses the key.  clock.now is the time in seconds; clock.due holds one  *)
(* record per running DelayedDelete goroutine, with the time its            *)
(* time.After fires; clock.latest maps <<m, key>> to the time of the most   *)
(* recent registration of key in map m.  A goroutine deletes at the very    *)
(* second its delay ends.                                                   *)

\* How many registrations a run makes, how far the clock runs, and by how
\* much it moves in one step.
MaxRegistrations == 2
MaxTime == 5500
TickSteps == {50, 1800}

\* The delay RegisterAuthCode / RegisterAccessToken give their DelayedDelete.
Expiry(m) == IF m = "AuthCodes" THEN CodeExpiry ELSE TokenExpiry

\* The cache after the registration of key in map m.
TtlRegistered(m, key) ==
    IF m = "AuthCodes"
        THEN RegisterAuthCode(Store, "client1", "", UriPlain, key).st
    ELSE RegisterAccessToken(Store, "client1", "", key).st

\* RegisterAuthCode / RegisterAccessToken called with a key of the caller's,
\* RandStr(1) each time; a DelayedDelete goroutine starts.
TtlRegister ==
    /\ clock.regs < MaxRegistrations
    /\ \E m \in Maps :
        /\ SetStore(TtlRegistered(m, RandStr(1)))
        /\ clock' = [clock EXCEPT
                !.due = @ \cup {[m |-> m, key |-> RandStr(1),
                                 at |-> clock.now + Expiry(m)]},
                !.latest = [k \in DOMAIN @ \cup {<<m, RandStr(1)>>} |->
                                IF k = <<m, RandStr(1)>> THEN clock.now
                                ELSE @[k]],
                !.regs = @ + 1]
    /\ UNCHANGED <<query, pend, exchanged, access, redis, redirecter,
                   approval, Clients, randstr, last>>

\* Time passes, up to the moment the next DelayedDelete wakes.
TtlTick ==
    /\ \E d \in TickSteps :
        /\ clock.now + d <= MaxTime
        /\ \A t \in clock.due : clock.now + d <= t.at
        /\ clock' = [clock EXCEPT !.now = @ + d]
    /\ UNCHANGED <<query, AuthCodes, AccessTokens, timers, randNext, pend,
                   exchanged, issued, access, redis, redirecter, approval,
                   Clients, randstr, last>>

\* DelayedDelete: the delay of goroutine t has ended, delete(m, key).
TtlDelete ==
    /\ \E t \in clock.due :
        /\ t.at = clock.now
        /\ AuthCodes' = IF t.m = "AuthCodes" THEN Delete(AuthCodes, t.key)
                        ELSE AuthCodes
        /\ AccessTokens' = IF t.m = "AccessTokens"
                            THEN Delete(AccessTokens, t.key)
                           ELSE AccessTokens
        /\ clock' = [clock EXCEPT !.due = @ \ {t}]
        /\ timers' = {Timer(u.m, u.key, Expiry(u.m)) : u \in clock.due \ {t}}
    /\ UNCHANGED <<query, randNext, pend, exchanged, issued, access, redis,
                   redirecter, approval, Clients, randstr, last>>

TtlNext ==
    \/ TtlRegister
    \/ TtlTick
    \/ TtlDelete

\* A BasicAuthCache whose caller registers a key of its own, again and again.
TtlSpec == RaceInit /\ [][TtlNext]_vars

----------------------------------------------------------------------------
(* A server with an ApprovalList *)

\* ApprovalList.Authorize(w, r, oar): HandleOAuthRequest has passed a
\* code-flow request on; the list decides and AuthCodeRedirect completes it.
ApprovalAuthorize ==
    /\ last = Idle
    /\ \E i \in 1..Len(pend), up \in BOOLEAN :
        /\ pend[i].method = "Authorize"
        /\ \E out \in {AuthCodeRedirect(pend[i].req,
                            ApprovalError(approval, pend[i].req.ClientID),
                            StoreWhen(up))} :
               /\ out.st.rand <= MaxIds + 1
               /\ SetStore(out.st)
               /\ last' = [Call("Authorize", out.req, NoRequest,
                                ApprovalError(approval, pend[i].req.ClientID),
                                NoErr, <<out.resp>>, <<>>)
                               EXCEPT !.up = up]
        /\ pend' = RemoveAt(pend, i)
    /\ UNCHANGED <<query, exchanged, access, redis, redirecter, approval, Clients,
                   randstr, clock>>

\* ApprovalList.AuthorizeImplicit(w, r, oar)
ApprovalAuthorizeImplicit ==
    /\ last = Idle
    /\ \E i \in 1..Len(pend), up \in BOOLEAN :
        /\ pend[i].method = "AuthorizeImplicit"
        /\ \E out \in {ImplicitRedirect(pend[i].req,
                            ApprovalError(approval, pend[i].req.ClientID),
                            StoreWhen(up))} :
               /\ out.st.rand <= MaxIds + 1
               /\ SetStore(out.st)
               /\ last' = [Call("AuthorizeImplicit", out.req, NoRequest,
                                ApprovalError(approval, pend[i].req.ClientID),
                                NoErr, <<out.resp>>, <<>>)
                               EXCEPT !.up = up]
        /\ pend' = RemoveAt(pend, i)
    /\ UNCHANGED <<query, exchanged, access, redis, redirecter, approval, Clients,
                   randstr, clock>>

\* A server whose auth handler is an ApprovalList, and one client's requests.
ApprovalInit ==
    /\ query \in {Query(c, t, UriPlain, "", "s1", "", "") :
                    c \in ApprovalClients, t \in {"code", "token"}}
    /\ approval \in ApprovalLists
    /\ AuthCodes = EmptyValues
    /\ AccessTokens = EmptyValues
    /\ timers = {}
    /\ randNext = 1
    /\ pend = <<>>
    /\ exchanged = EmptyValues
    /\ issued = [codes |-> {}, tokens |-> {}]
    /\ access = {}
    /\ redis = [db |-> EmptyValues, calls |-> {}]
    /\ redirecter = [AuthCode |-> NoQuery, Implicit |-> NoQuery, calls |-> {}]
    /\ Clients = AddClient(NewBasicClientStore, "client1")
    /\ randstr = [written |-> 0, waiting |-> {}, got |-> <<>>]
    /\ clock = [now |-> 0, due |-> {}, latest |-> <<>>, regs |-> 0]
    /\ last = Idle

ApprovalNext ==
    \/ HandleOAuthRequestCall
    \/ ApprovalAuthorize
    \/ ApprovalAuthorizeImplicit
    \/ DelayedDelete
    \/ Return

ApprovalSpec == ApprovalInit /\ [][ApprovalNext]_vars

\* The same server built over any of the client stores.
ClientInit ==
    /\ query \in {Query(c, t, UriPlain, "", "s1", "", "") :
                    c \in ApprovalClients, t \in {"code", "token"}}
    /\ approval \in ApprovalLists
    /\ Clients \in ClientStores
    /\ AuthCodes = EmptyValues
    /\ AccessTokens = EmptyValues
    /\ timers = {}
    /\ randNext = 1
    /\ pend = <<>>
    /\ exchanged = EmptyValues
    /\ issued = [codes |-> {}, tokens |-> {}]
    /\ access = {}
    /\ redis = [db |-> EmptyValues, calls |-> {}]
    /\ redirecter = [AuthCode |-> NoQuery, Implicit |-> NoQuery, calls |-> {}]
    /\ randstr = [written |-> 0, waiting |-> {}, got |-> <<>>]
    /\ clock = [now |-> 0, due |-> {}, latest |-> <<>>, regs |-> 0]
    /\ last = Idle

ClientSpec == ClientInit /\ [][ApprovalNext]_vars

----------------------------------------------------------------------------
(* Vocabulary of the properties *)

\* The latest step was a call of HandleOAuthRequest, by the application or by
\* masterHandlerImpl.
IsOAuthCall ==
    \/ last.op = "HandleOAuthRequest"
    \/ last.op = "MasterHandler" /\ last.req # NoRequest

\* A redirect_uri string that is missing, unparseable, not absolute or that
\* contains a fragment.
Defective(uri) ==
    \/ uri = EmptyString
    \/ uri.malformed
    \/ uri.scheme = ""
    \/ uri.fragment # EmptyValues

\* The responses among resp that are redirects.
RedirectsIn(resp) == {i \in 1..Len(resp) : resp[i].status \in 300..399}

\* The call wrote no redirect at all.
NoRedirect == RedirectsIn(last.resp) = {}

\* The call left both cache maps as they were.
StoreUntouched == AuthCodes = last.preCodes /\ AccessTokens = last.preTokens

\* The error code HandleOAuthRequest owes a request, by the order of its checks
\* ("" when every check passes).
OwedCode(req) ==
    IF req.ClientID = "" THEN "invalid_request"
    ELSE IF req.ResponseType = "" THEN "invalid_request"
    ELSE IF req.ResponseType \notin {"code", "token"} THEN "unsupported_response_type"
    ELSE IF Defective(req.redirectURI_raw) THEN "invalid_request"
    ELSE ""

\* The description that goes with it, naming the check that failed.
OwedDescription(req) ==
    IF req.ClientID = "" THEN "The \"client_id\" parameter is missing."
    ELSE IF req.ResponseType = "" THEN "The \"response_type\" parameter is missing."
    ELSE IF req.ResponseType \notin {"code", "token"} THEN "The response type \"blah\" is not supported."
    ELSE IF req.redirectURI_raw = EmptyString THEN "Missing redirection URI."
    ELSE IF req.redirectURI_raw.malformed
        THEN "The redirection URI is malformed: " \o ToString(UriMalformed) \o "."
    ELSE IF req.redirectURI_raw.scheme = ""
        THEN "The redirection URI must be absolute: " \o ToString(UriRelative) \o "."
    ELSE IF req.redirectURI_raw.fragment # EmptyValues
        THEN "The redirection URI must not contain a fragment: "
                \o ToString(UriFragment) \o "."
    ELSE ""

----------------------------------------------------------------------------
(* C1 *)

\* C1: authorization codes are single-use: of the CreateAccessToken calls that
\* present one issued code with the matching redirect_uri, at most one
\* succeeds; a second exchange of the same code fails and registers no token.
C1_CodeIsSingleUse == \A c \in DOMAIN exchanged : exchanged[c] <= 1

----------------------------------------------------------------------------
(* C2 *)

\* C2: HandleOAuthRequest reports at most one error per request, the one of the
\* first failing check in the order client_id missing (invalid_request),
\* response_type missing (invalid_request), response_type not code or token
\* (unsupported_response_type), redirect URI missing or defective
\* (invalid_request); a later check never replaces an earlier error, and code or
\* token never yields unsupported_response_type.
C2_FirstErrorWins ==
    IsOAuthCall =>
        /\ last.ret.code = OwedCode(last.req)
        /\ last.ret.description = OwedDescription(last.req)
        /\ (last.ret = NoErr) = (OwedCode(last.req) = "")
        /\ \A i \in 1..Len(last.resp) :
            /\ last.ret # NoErr
            /\ last.resp[i].status = 200
            /\ Get(last.resp[i].body, "error") = OwedCode(last.req)
        /\ Len(last.resp) <= 1
        /\ (last.req.ResponseType \in {"code", "token"}
                => last.ret.code # "unsupported_response_type")

\* C2's case: an unsupported response_type together with a defective redirect
\* URI, where the later check would have replaced the earlier error.
C2_Witness ==
    /\ last.op = "HandleOAuthRequest"
    /\ last.req.ClientID # ""
    /\ last.req.ResponseType = "blah"
    /\ last.req.redirectURI_raw = UriRelative
    /\ last.ret.code = "unsupported_response_type"

----------------------------------------------------------------------------
(* C3 *)

\* C3: for every authorization request whose client_id is empty, whatever its
\* other parameters, HandleOAuthRequest issues no redirect, does not invoke the
\* auth handler, creates no code or token and returns invalid_request directly.
C3_MissingClientID ==
    (IsOAuthCall /\ last.req.ClientID = "") =>
        /\ NoRedirect
        /\ last.op = "HandleOAuthRequest" => last.resp = <<>>
        /\ last.auth = <<>>
        /\ StoreUntouched
        /\ last.ret.kind = "ServerError"
        /\ last.ret.code = "invalid_request"

\* C3's case: no client_id, everything else valid.
C3_Witness ==
    /\ last.op = "HandleOAuthRequest"
    /\ last.req.ClientID = ""
    /\ last.req.ResponseType = "code"
    /\ last.req.redirectURI_raw = UriPlain
    /\ last.ret.code = "invalid_request"
    /\ last.resp = <<>>

----------------------------------------------------------------------------
(* C4 *)

\* C4 as stated: for a request with a non-empty client_id, a valid (absolute,
\* fragment-free) redirect_uri and a response_type that is neither code nor
\* token, the caller gets no redirect but a direct error whose code is
\* unsupported_response_type.
C4_AnyOtherResponseType ==
    (/\ last.op = "HandleOAuthRequest"
     /\ last.req.ClientID # ""
     /\ ~Defective(last.req.redirectURI_raw)
     /\ last.req.ResponseType \notin {"code", "token"}) =>
        /\ NoRedirect
        /\ last.ret.code = "unsupported_response_type"

\* C4, amended: the same for a response_type that is present and neither code
\* nor token: no redirect, the error unsupported_response_type is returned, and
\* masterHandlerImpl writes it as the one JSON body.  (An absent response_type
\* is answered with invalid_request.)
C4_UnsupportedResponseType ==
    (/\ IsOAuthCall
     /\ last.req.ClientID # ""
     /\ ~Defective(last.req.redirectURI_raw)
     /\ last.req.ResponseType \notin {"", "code", "token"}) =>
        /\ NoRedirect
        /\ last.auth = <<>>
        /\ last.ret.kind = "ServerError"
        /\ last.ret.code = "unsupported_response_type"
        /\ last.op = "HandleOAuthRequest" => last.resp = <<>>
        /\ last.op = "MasterHandler" =>
            /\ Len(last.resp) = 1
            /\ last.resp[1].status = 200
            /\ Get(last.resp[1].header, "Content-Type") = "application/json"
            /\ Get(last.resp[1].body, "error") = "unsupported_response_type"

\* C4's case: response_type=blah through the master handler, answered in JSON.
C4_Witness ==
    /\ last.op = "MasterHandler"
    /\ last.req # NoRequest
    /\ last.req.ClientID = "client1"
    /\ last.req.ResponseType = "blah"
    /\ last.req.redirectURI_raw = UriPlain
    /\ Len(last.resp) = 1
    /\ Get(last.resp[1].body, "error") = "unsupported_response_type"

----------------------------------------------------------------------------
(* C5 *)

----------------------------------------------------------------------------
(* C6 *)

\* C6 as stated: when the redirect_uri is missing, unparseable, not absolute or
\* contains a fragment, HandleOAuthRequest produces invalid_request, returns it
\* directly with no redirect, never invokes the auth handler and leaves the
\* store unchanged.
C6_DefectIsInvalidRequest ==
    (IsOAuthCall /\ Defective(last.req.redirectURI_raw)) =>
        /\ last.ret.code = "invalid_request"
        /\ NoRedirect
        /\ last.auth = <<>>
        /\ StoreUntouched

\* C6, amended: in that case HandleOAuthRequest returns an error directly, with
\* no redirect, no call of the auth handler and the store unchanged; the error
\* is invalid_request, except that a present response_type other than code and
\* token (with a client_id) keeps its earlier unsupported_response_type.
C6_DefectIsReturned ==
    (IsOAuthCall /\ Defective(last.req.redirectURI_raw)) =>
        /\ last.ret.kind = "ServerError"
        /\ last.ret.code =
            IF last.req.ClientID # "" /\ last.req.ResponseType \notin {"", "code", "token"}
                THEN "unsupported_response_type"
            ELSE "invalid_request"
        /\ last.req.RedirectURI = NilURL
        /\ NoRedirect
        /\ last.op = "HandleOAuthRequest" => last.resp = <<>>
        /\ last.auth = <<>>
        /\ StoreUntouched

\* C6's case: an otherwise valid request whose redirect_uri has a fragment.
C6_Witness ==
    /\ last.op = "HandleOAuthRequest"
    /\ last.req.ClientID = "client1"
    /\ last.req.ResponseType = "token"
    /\ last.req.redirectURI_raw = UriFragment
    /\ last.ret.code = "invalid_request"
    /\ last.ret.description =
        "The redirection URI must not contain a fragment: " \o ToString(UriFragment) \o "."
    /\ last.auth = <<>>

----------------------------------------------------------------------------
(* C7 *)

\* C7: the auth handler is never invoked for a request on which a validation
\* or resolution error was detected, and no request is both redirected with an
\* error and passed to the auth handler: a request gets at most one response.
C7_NoAuthOnError ==
    IsOAuthCall =>
        /\ OwedCode(last.req) # "" => last.auth = <<>>
        /\ last.ret # NoErr => last.auth = <<>>
        /\ last.auth # <<>> => last.resp = <<>>
        /\ Len(last.resp) + Len(last.auth) <= 1

\* C7's case: a request that fails only the redirect URI check and is not
\* passed on.
C7_Witness ==
    /\ last.op = "HandleOAuthRequest"
    /\ last.req.ClientID = "client1"
    /\ last.req.ResponseType = "code"
    /\ last.req.redirectURI_raw = UriRelative
    /\ last.ret.code = "invalid_request"
    /\ last.auth = <<>>
    /\ last.resp = <<>>

----------------------------------------------------------------------------
(* C8 *)

\* C8: HandleOAuthRequest returns a non-nil error exactly when req.RedirectURI
\* is nil, and has then written nothing to the response; it returns nil exactly
\* when req.RedirectURI is non-nil and the request was redirected or handed to
\* the auth handler; it never returns nil with a nil RedirectURI.
C8_ErrorIffNoRedirectURI ==
    IsOAuthCall =>
        /\ (last.ret # NoErr) = (last.req.RedirectURI = NilURL)
        /\ last.ret # NoErr =>
            /\ last.auth = <<>>
            /\ NoRedirect
            /\ last.op = "HandleOAuthRequest" => last.resp = <<>>
        /\ last.ret = NoErr =>
            /\ last.req.RedirectURI # NilURL
            /\ last.resp # <<>> \/ last.auth # <<>>

\* C8's case: a call that returns nil, with a redirect URI and a hand-over to
\* the auth handler.
C8_Witness ==
    /\ last.op = "HandleOAuthRequest"
    /\ last.ret = NoErr
    /\ last.req.RedirectURI # NilURL
    /\ Len(last.auth) = 1
    /\ last.auth[1].req.RedirectURI = last.req.RedirectURI

----------------------------------------------------------------------------
(* C9 *)

\* C9: when validation and redirect resolution succeed, HandleOAuthRequest
\* invokes exactly one method of the auth handler exactly once (Authorize for
\* response_type=code, AuthorizeImplicit for token), and no authorization code
\* or access token is created for the request until that handler calls
\* AuthCodeRedirect / ImplicitRedirect with a nil error.
C9_OneAuthCall ==
    /\ (IsOAuthCall /\ OwedCode(last.req) = "") =>
        /\ Len(last.auth) = 1
        /\ last.auth[1].method =
            (IF last.req.ResponseType = "code" THEN "Authorize" ELSE "AuthorizeImplicit")
        /\ last.auth[1].req = last.req
        /\ last.resp = <<>>
        /\ StoreUntouched
    /\ IsOAuthCall => StoreUntouched
    /\ (last.op \in {"AuthCodeRedirect", "ImplicitRedirect"} /\ last.err # NoErr)
            => StoreUntouched
    /\ \/ last = Idle
       \/ DOMAIN AuthCodes \subseteq DOMAIN last.preCodes
       \/ last.op = "AuthCodeRedirect" /\ last.err = NoErr
    /\ \/ last = Idle
       \/ DOMAIN AccessTokens \subseteq DOMAIN last.preTokens
       \/ last.op = "ImplicitRedirect" /\ last.err = NoErr
       \/ last.op = "MasterHandler" /\ last.treq # NoRequest /\ last.err = NoErr
    /\ Len(pend) <= MaxPending

\* C9's case: a valid code request was handed to Authorize and nothing is in
\* the store yet.
C9_Witness ==
    /\ last.op = "HandleOAuthRequest"
    /\ last.req.ResponseType = "code"
    /\ Len(last.auth) = 1
    /\ last.auth[1].method = "Authorize"
    /\ pend = last.auth
    /\ AuthCodes = EmptyValues
    /\ AccessTokens = EmptyValues

----------------------------------------------------------------------------
(* C10 *)

\* The query of the one redirect the latest call wrote.
WrittenQuery == last.resp[1].Location.query

\* The redirect the latest call wrote is a 302 without fragment whose code
\* parameter is a non-empty code registered in the store with the request's
\* client id, scope and redirect URI.
CodeIsDelivered ==
    /\ Len(last.resp) = 1
    /\ last.resp[1].status = 302
    /\ ~last.resp[1].Location.malformed
    /\ last.resp[1].Location.scheme = last.req.RedirectURI.Scheme
    /\ last.resp[1].Location.host = last.req.RedirectURI.Host
    /\ last.resp[1].Location.fragment = EmptyValues
    /\ "code" \in DOMAIN WrittenQuery
    /\ WrittenQuery["code"] # ""
    /\ WrittenQuery["code"] \in DOMAIN AuthCodes
    /\ WrittenQuery["code"] \notin DOMAIN last.preCodes
    /\ AuthCodes[WrittenQuery["code"]].ClientID = last.req.ClientID
    /\ AuthCodes[WrittenQuery["code"]].Scope = last.req.Scope
    /\ AuthCodes[WrittenQuery["code"]].RedirectURI.scheme = last.req.RedirectURI.Scheme
    /\ AuthCodes[WrittenQuery["code"]].RedirectURI.host = last.req.RedirectURI.Host
    /\ AuthCodes[WrittenQuery["code"]].RedirectURI.query = last.req.redirectURI_raw.query
    /\ AuthCodes[WrittenQuery["code"]].RedirectURI.fragment = EmptyValues

\* C10 as stated: when the code flow is completed with a nil error, the 302
\* redirect's query contains a non-empty code registered in the store with the
\* request's client id, scope and redirect URI, plus the original state, and
\* no error field, and the URI has no fragment.
C10_CodeStateNoError ==
    (last.op = "AuthCodeRedirect" /\ last.err = NoErr /\ last.up) =>
        /\ CodeIsDelivered
        /\ Get(WrittenQuery, "state") = last.req.State
        /\ "error" \notin DOMAIN WrittenQuery

\* C10, amended: the same, where the redirect's query is the query of the
\* client's redirect_uri with code set to the new code and, when the request
\* has a state, state set to it.  An error field (and, for a request without
\* state, a state field) is therefore present exactly when the client's
\* redirect_uri carried one.
C10_CodeDelivered ==
    (last.op = "AuthCodeRedirect" /\ last.err = NoErr /\ last.up) =>
        /\ CodeIsDelivered
        /\ DOMAIN WrittenQuery =
            DOMAIN last.req.redirectURI_raw.query \cup {"code"}
                \cup (IF last.req.State # "" THEN {"state"} ELSE {})
        /\ \A k \in DOMAIN WrittenQuery :
            WrittenQuery[k] =
                IF k = "code" THEN RandStr(randNext - 1)
                ELSE IF k = "state" /\ last.req.State # "" THEN last.req.State
                ELSE last.req.redirectURI_raw.query[k]

\* C10's case: a code request with state s1 completed with nil; the redirect
\* carries the new code and the state.
C10_Witness ==
    /\ last.op = "AuthCodeRedirect"
    /\ last.err = NoErr
    /\ last.up
    /\ last.req.State = "s1"
    /\ last.req.Scope = "read"
    /\ last.req.redirectURI_raw = UriPlain
    /\ Len(last.resp) = 1
    /\ DOMAIN WrittenQuery = {"code", "state"}
    /\ WrittenQuery["state"] = "s1"
    /\ WrittenQuery["code"] \in DOMAIN AuthCodes

----------------------------------------------------------------------------
(* C11 *)

\* The fragment of the one redirect the latest call wrote.
WrittenFragment == last.resp[1].Location.fragment

----------------------------------------------------------------------------
(* C12 *)

\* The auth handler completed the flow of the latest call with an
\* access_denied error.
Denied ==
    /\ last.op \in {"AuthCodeRedirect", "ImplicitRedirect"}
    /\ last.err.kind = "ServerError"
    /\ last.err.code = "access_denied"

\* The fields the latest call's redirect carries for its flow: the query for
\* the code flow, the fragment for the implicit flow.
WrittenFields ==
    IF last.op = "AuthCodeRedirect" THEN WrittenQuery ELSE WrittenFragment

\* The fields the client's redirect_uri itself carried in that part.
SuppliedFields ==
    IF last.op = "AuthCodeRedirect" THEN last.req.redirectURI_raw.query
    ELSE last.req.redirectURI_raw.fragment

\* C12 as stated: when the auth handler completes either flow with an
\* access_denied error, the redirect (query for the code flow, fragment for
\* the implicit flow) contains error=access_denied and the original state,
\* contains no code and no token field, and no authorization code or access
\* token is registered in the store for that request.
C12_DeniedNoCodeField ==
    Denied =>
        /\ Len(last.resp) = 1
        /\ last.resp[1].status = 302
        /\ Get(WrittenFields, "error") = "access_denied"
        /\ Get(WrittenFields, "state") = last.req.State
        /\ "code" \notin DOMAIN WrittenFields
        /\ "token" \notin DOMAIN WrittenFields
        /\ StoreUntouched

\* C12, amended: the redirect carries, in the part of its flow, the fields the
\* client's redirect_uri carried there, with error=access_denied and the
\* error description set and, when the request has a state, state set to it;
\* nothing is registered in the store.  A code field (or, for a request
\* without state, a state field) is therefore present exactly when the
\* client's redirect_uri carried one; a token field never is.
C12_DeniedIsReported ==
    Denied =>
        /\ Len(last.resp) = 1
        /\ last.resp[1].status = 302
        /\ DOMAIN WrittenFields =
            DOMAIN SuppliedFields \cup {"error", "error_description"}
                \cup (IF last.req.State # "" THEN {"state"} ELSE {})
        /\ \A k \in DOMAIN WrittenFields :
            WrittenFields[k] =
                IF k = "error" THEN "access_denied"
                ELSE IF k = "error_description" THEN last.err.description
                ELSE IF k = "state" /\ last.req.State # "" THEN last.req.State
                ELSE SuppliedFields[k]
        /\ "token" \notin DOMAIN WrittenFields
        /\ StoreUntouched

\* C12's case: a denied code request with state s1; the redirect's query is
\* the error, its description and the state.
C12_Witness ==
    /\ Denied
    /\ last.op = "AuthCodeRedirect"
    /\ last.req.State = "s1"
    /\ last.req.redirectURI_raw = UriPlain
    /\ Len(last.resp) = 1
    /\ DOMAIN WrittenQuery = {"error", "error_description", "state"}
    /\ WrittenQuery["error"] = "access_denied"
    /\ AuthCodes = last.preCodes

----------------------------------------------------------------------------
(* C13 *)

\* The latest call is a token request that passed the checks of
\* HandleAccessTokenRequest, so that Store.CreateAccessToken was called, and
\* the backend answered.
IsExchange ==
    /\ last.op = "MasterHandler"
    /\ last.treq # NoRequest
    /\ last.treq.GrantType = "authorization_code"
    /\ last.treq.Code # ""
    /\ last.treq.RedirectURI # EmptyString
    /\ last.up

\* C13: CreateAccessToken for a code that is present and unexpired but
\* presented with a redirect_uri string different from the one recorded when
\* the code was issued fails with bad_redirect_uri, registers no access token
\* and leaves the stored code entry unchanged.
C13_RedirectMismatch ==
    (/\ IsExchange
     /\ last.treq.Code \in DOMAIN last.preCodes
     /\ last.preCodes[last.treq.Code].RedirectURI # last.treq.RedirectURI) =>
        /\ last.err.kind = "ServerError"
        /\ last.err.code = "bad_redirect_uri"
        /\ AccessTokens = last.preTokens
        /\ AuthCodes = last.preCodes
        /\ Len(last.resp) = 1
        /\ Get(last.resp[1].body, "error") = "bad_redirect_uri"
        /\ "token" \notin DOMAIN last.resp[1].body

\* C13's case: code 1 was issued for https://cb.example/ and is presented
\* with another redirect_uri.
C13_Witness ==
    /\ IsExchange
    /\ last.treq.Code = "1"
    /\ "1" \in DOMAIN AuthCodes
    /\ AuthCodes["1"].RedirectURI = UriPlain
    /\ last.treq.RedirectURI = UriQuery
    /\ last.err.code = "bad_redirect_uri"
    /\ AccessTokens = EmptyValues

----------------------------------------------------------------------------
(* C14 *)

\* C14: a token-endpoint request presenting a code that was never issued, or
\* whose TTL has elapsed since issuance, fails: no access token is
\* registered, and the response is a direct JSON body with error fields and
\* no token field (never a redirect).
C14_UnknownCode ==
    (/\ last.op = "MasterHandler"
     /\ last.treq # NoRequest
     /\ last.treq.Code \notin DOMAIN last.preCodes) =>
        /\ last.err # NoErr
        /\ AccessTokens = last.preTokens
        /\ AuthCodes = last.preCodes
        /\ NoRedirect
        /\ Len(last.resp) = 1
        /\ last.resp[1].status = 200
        /\ Get(last.resp[1].header, "Content-Type") = "application/json"
        /\ DOMAIN last.resp[1].body = {"error", "error_description", "error_uri"}
        /\ last.resp[1].body["error"] # ""

\* C14's case: code 1 was issued, its DelayedDelete has fired, and it is
\* presented in an otherwise valid token request.
C14_Witness ==
    /\ IsExchange
    /\ last.treq.Code = "1"
    /\ "1" \in issued.codes
    /\ "1" \notin DOMAIN AuthCodes
    /\ last.treq.RedirectURI = UriPlain
    /\ last.err # NoErr
    /\ Get(last.resp[1].body, "error") # ""

----------------------------------------------------------------------------
(* C15 *)

\* The latest call is a token request given to HandleAccessTokenRequest.
IsTokenCall == last.op = "MasterHandler" /\ last.treq # NoRequest

\* The error code HandleAccessTokenRequest owes a request, by the order of
\* its checks ("" when every check passes).
OwedTokenCode(treq) ==
    IF treq.GrantType = "" THEN "invalid_request"
    ELSE IF treq.Code = "" THEN "invalid_request"
    ELSE IF treq.RedirectURI = EmptyString THEN "invalid_request"
    ELSE IF treq.GrantType # "authorization_code" THEN "unsupported_grant_type"
    ELSE ""

\* The description that goes with it.
OwedTokenDescription(treq) ==
    IF treq.GrantType = "" THEN "The \"grant_type\" parameter is missing."
    ELSE IF treq.Code = "" THEN "The \"code\" parameter is missing."
    ELSE IF treq.RedirectURI = EmptyString
        THEN "The \"redirect_uri\" parameter is missing."
    ELSE IF treq.GrantType # "authorization_code"
        THEN "The grant type \"password\" is not supported."
    ELSE ""

\* C15: HandleAccessTokenRequest validates in the fixed order grant_type
\* missing -> code missing -> redirect_uri missing (each invalid_request) ->
\* grant_type other than authorization_code (unsupported_grant_type), reports
\* only the first failing check, and calls Store.CreateAccessToken only when
\* all four checks pass.  (A call of the store shows in its answer: a token,
\* the error of the lookup or of the comparison, or the backend's error when
\* the backend is down.)
C15_TokenCheckOrder ==
    IsTokenCall =>
        /\ last.ret = NoErr
        /\ Len(last.resp) = 1
        /\ OwedTokenCode(last.treq) # "" =>
            /\ last.err.kind = "ServerError"
            /\ last.err.code = OwedTokenCode(last.treq)
            /\ last.err.description = OwedTokenDescription(last.treq)
            /\ DOMAIN last.resp[1].body = {"error", "error_description", "error_uri"}
            /\ last.resp[1].body["error"] = OwedTokenCode(last.treq)
            /\ last.resp[1].body["error_description"] = OwedTokenDescription(last.treq)
            /\ StoreUntouched
        /\ OwedTokenCode(last.treq) = "" =>
            /\ last.err \in
                {NoErr, BackendError, PlainError("AuthCode not found in Cache!"),
                 NewServerError("bad_redirect_uri", "Redirect URI Incorrect.", "")}
            /\ ~last.up => last.err = BackendError
            /\ (last.err = NoErr) = ("token" \in DOMAIN last.resp[1].body)

\* C15's case: a request without code and with an unsupported grant type is
\* answered with the earlier error, and the store, though down, is not asked.
C15_Witness ==
    /\ IsTokenCall
    /\ last.treq.GrantType = "password"
    /\ last.treq.Code = ""
    /\ ~last.up
    /\ last.err.code = "invalid_request"
    /\ last.err.description = "The \"code\" parameter is missing."

----------------------------------------------------------------------------
(* C16 *)

\* The latest call is a request for a protected resource.
IsVerifierCall == last.op = "TokenVerifier"

\* The latest call answered 401 with err.Error() of the error returned and
\* did not run the wrapped handler.
Refused ==
    /\ last.ret.kind = "ServerError"
    /\ Len(last.resp) = 1
    /\ last.resp[1].status = 401
    /\ last.resp[1].body = [k \in {"text"} |-> last.ret.description]
    /\ ~last.served

\* C16: a protected-resource request whose Authorization value is a token
\* that was never issued, or that was issued and whose TTL has since elapsed,
\* is answered with status 401 and error invalid_token, and the wrapped
\* resource handler is not executed.
C16_UnknownToken ==
    (/\ IsVerifierCall
     /\ last.authField # ""
     /\ last.authField \notin DOMAIN AccessTokens) =>
        /\ Refused
        /\ last.ret.code = "invalid_token"
        /\ StoreUntouched

\* C16's case: token 1 was issued, its DelayedDelete has fired, and it is
\* presented to the verifier.
C16_Witness ==
    /\ IsVerifierCall
    /\ last.authField = "1"
    /\ "1" \in issued.tokens
    /\ "1" \notin DOMAIN AccessTokens
    /\ last.up
    /\ last.ret.code = "invalid_token"
    /\ ~last.served

----------------------------------------------------------------------------
(* C17 *)

\* The DelayedDelete goroutine of token t has not fired yet.
WithinTTL(t) == Timer("AccessTokens", t, TokenExpiry) \in timers

\* The token the latest call returned to the client, "" if none.
ReturnedToken ==
    IF last.op = "ImplicitRedirect" /\ Len(last.resp) = 1
        THEN Get(WrittenFragment, "token")
    ELSE IF last.op = "MasterHandler" /\ last.treq # NoRequest /\ Len(last.resp) = 1
        THEN Get(last.resp[1].body, "token")
    ELSE ""

\* C17: any access token returned by a successful implicit grant or by a
\* successful code exchange is accepted by TokenVerifier at every moment
\* before its TTL elapses (the backend answering): a returned token is a
\* registered one whose TTL runs, a registered token stays in the cache while
\* its TTL runs, and for such a token VerifyToken returns nil and the wrapped
\* resource handler executes.
C17_TokenAccepted ==
    /\ ReturnedToken # "" =>
        /\ ReturnedToken \in issued.tokens
        /\ WithinTTL(ReturnedToken)
    /\ \A t \in issued.tokens : WithinTTL(t) => t \in DOMAIN AccessTokens
    /\ (/\ IsVerifierCall
        /\ last.authField \in issued.tokens
        /\ WithinTTL(last.authField)
        /\ last.up) =>
            /\ last.ret = NoErr
            /\ last.served
            /\ last.resp = <<>>

\* C17's case: a token obtained by exchanging a code is presented while its
\* TTL runs, and the wrapped handler runs.
C17_Witness ==
    /\ IsVerifierCall
    /\ last.authField = "2"
    /\ Get0(exchanged, "1") = 1
    /\ "2" \in issued.tokens
    /\ WithinTTL("2")
    /\ last.up
    /\ last.served

----------------------------------------------------------------------------
(* C18 *)

\* C18: a protected-resource request without an Authorization header fails
\* with invalid_request and status 401, the store is not consulted (so the
\* answer is the same when the backend is down and when the cache holds
\* tokens), and the wrapped resource handler is not executed.
C18_MissingAuthorization ==
    (IsVerifierCall /\ last.authField = "") =>
        /\ Refused
        /\ last.ret.code = "invalid_request"
        /\ last.ret.description = "The \"Authorization\" header field is missing."
        /\ StoreUntouched

\* C18's case: no Authorization header, while the backend is down and the
\* cache holds a token.
C18_Witness ==
    /\ IsVerifierCall
    /\ last.authField = ""
    /\ ~last.up
    /\ AccessTokens # EmptyValues
    /\ last.ret.code = "invalid_request"
    /\ last.resp[1].status = 401
    /\ ~last.served

----------------------------------------------------------------------------
(* C19 *)

\* C19: in the code flow, when the auth handler approves (nil error) but
\* Store.CreateAuthCode fails because the cache collaborator fails, the
\* failure is reported to the client as server_error: the redirect carries
\* error=server_error and no code.
C19_StoreFailureIsServerError ==
    (last.op = "AuthCodeRedirect" /\ last.err = NoErr /\ ~last.up) =>
        /\ Len(last.resp) = 1
        /\ last.resp[1].status = 302
        /\ Get(WrittenQuery, "error") = "server_error"
        /\ Get(WrittenQuery, "code") = Get(last.req.redirectURI_raw.query, "code")

----------------------------------------------------------------------------
(* C20 *)

\* C20: in the implicit flow, when the auth handler approves (nil error) but
\* Store.CreateImplicitAccessToken fails, the failure surfaces to the request
\* as a server_error: the redirect fragment carries the error fields and no
\* token; a redirect carrying neither token nor error is never issued.
C20_StoreFailureSurfaces ==
    /\ (last.op = "ImplicitRedirect" /\ last.err = NoErr /\ ~last.up) =>
        /\ Len(last.resp) = 1
        /\ last.resp[1].status = 302
        /\ Get(WrittenFragment, "error") = "server_error"
        /\ "token" \notin DOMAIN WrittenFragment
    /\ last.op = "ImplicitRedirect" =>
        \A i \in 1..Len(last.resp) :
            \/ "token" \in DOMAIN last.resp[i].Location.fragment
            \/ "error" \in DOMAIN last.resp[i].Location.fragment

----------------------------------------------------------------------------
(* C21 *)

\* C21: when Store.ValidateAccessToken returns an error (the backend fails)
\* during bearer verification, VerifyToken returns a server_error for that
\* request; the failure is neither reported as invalid_token nor treated as a
\* successful verification.
C21_LookupFailureIsServerError ==
    (IsVerifierCall /\ last.authField # "" /\ ~last.up) =>
        /\ last.ret.code = "server_error"
        /\ last.ret.code # "invalid_token"
        /\ ~last.served

----------------------------------------------------------------------------
(* C22 *)

\* The JSON error body of the latest token call.
TokenErrorBody == last.resp[1].body

\* C22: InterpretError maps any error that is not already a ServerError to a
\* ServerError with code server_error whose description is the original
\* error's message text; a ServerError keeps its code and description and
\* gains the URI registered for its code when its own uri is empty.  At the
\* token endpoint the store's error goes through InterpretError into the
\* JSON body.
C22_InterpretErrorKeepsMessage ==
    (IsTokenCall /\ last.err # NoErr) =>
        /\ Len(last.resp) = 1
        /\ last.err.kind = "error" =>
            /\ TokenErrorBody["error"] = "server_error"
            /\ TokenErrorBody["error_description"] = Error(last.err)
        /\ last.err.kind = "ServerError" =>
            /\ TokenErrorBody["error"] = last.err.code
            /\ TokenErrorBody["error_description"] = last.err.description
            /\ TokenErrorBody["error_uri"] =
                    IF last.err.uri = "" THEN errorURIs(last.err.code)
                    ELSE last.err.uri

----------------------------------------------------------------------------
(* C23 *)

\* The responses of the latest call that carry a body instead of a redirect.
DirectResponses ==
    {i \in 1..Len(last.resp) : last.resp[i].status \notin 300..399}

\* C23: every direct response body (the success and the error responses of
\* the token endpoint, the direct errors written by masterHandlerImpl, and
\* the bearer-verification failure responses written by TokenVerifier) is
\* sent with the headers Cache-Control: no-store and Pragma: no-cache.
C23_DirectBodyNotCached ==
    \A i \in DirectResponses :
        /\ Get(last.resp[i].header, "Cache-Control") = "no-store"
        /\ Get(last.resp[i].header, "Pragma") = "no-cache"

----------------------------------------------------------------------------
(* C24 *)

\* The latest call is a completion of a flow by the auth handler.
IsCompletion == last.op \in {"AuthCodeRedirect", "ImplicitRedirect"}

\* The part of the written redirect that the flow of the latest call encodes
\* its fields in: the query for the code flow, the fragment for the implicit
\* flow.
WrittenPart ==
    IF last.op = "AuthCodeRedirect" THEN WrittenQuery ELSE WrittenFragment

\* The same part of the redirect_uri string the client sent.
SuppliedPart ==
    IF last.op = "AuthCodeRedirect" THEN query.redirect_uri.query
    ELSE query.redirect_uri.fragment

\* C24: every redirect produced by AuthCodeRedirect or ImplicitRedirect, for
\* success and for error outcomes alike, carries the request's state
\* parameter with exactly the value the client supplied; when the client
\* supplied no state, no state field is added (the part has a state field
\* only if the client's redirect_uri had it there, with that value).
C24_StateVerbatim ==
    IsCompletion =>
        /\ Len(last.resp) = 1
        /\ last.resp[1].status = 302
        /\ query.state # "" =>
            /\ "state" \in DOMAIN WrittenPart
            /\ WrittenPart["state"] = query.state
        /\ query.state = "" =>
            /\ ("state" \in DOMAIN WrittenPart) = ("state" \in DOMAIN SuppliedPart)
            /\ Get(WrittenPart, "state") = Get(SuppliedPart, "state")

\* C24's case: an implicit request with state s1 that the auth handler
\* completes with an error of its own; the fragment carries state=s1.
C24_Witness ==
    /\ last.op = "ImplicitRedirect"
    /\ last.err = PlainError("login failed")
    /\ query.state = "s1"
    /\ Len(last.resp) = 1
    /\ Get(WrittenFragment, "state") = "s1"
    /\ Get(WrittenFragment, "error") = "access_denied"

----------------------------------------------------------------------------
(* C25 *)

\* The fields a completion may set on a redirect.
ResponseFields ==
    {"state", "code", "token", "token_type", "expires_in",
     "error", "error_description", "error_uri"}

\* v and w are the same url.Values except for the keys in keys.
SameExcept(v, w, keys) ==
    /\ DOMAIN v \ keys = DOMAIN w \ keys
    /\ \A k \in DOMAIN v \ keys : v[k] = w[k]

\* C25: response fields are encoded in the part of the redirect URI that
\* matches the grant, for success and for error: AuthCodeRedirect puts state,
\* code or error fields only in the query and leaves the fragment empty;
\* ImplicitRedirect puts state, token fields or error fields only in the
\* fragment and leaves the redirect URI's existing query unchanged.
C25_FieldsInPartOfGrant ==
    IsCompletion =>
        /\ Len(last.resp) = 1
        /\ last.resp[1].status = 302
        /\ last.op = "AuthCodeRedirect" =>
            /\ WrittenFragment = EmptyValues
            /\ SameExcept(WrittenQuery, query.redirect_uri.query,
                    {"state", "code", "error", "error_description", "error_uri"})
            /\ \/ "code" \in DOMAIN WrittenQuery
               \/ "error" \in DOMAIN WrittenQuery
        /\ last.op = "ImplicitRedirect" =>
            /\ WrittenQuery = query.redirect_uri.query
            /\ DOMAIN WrittenFragment \subseteq ResponseFields \ {"code"}
            /\ last.err # NoErr => "error" \in DOMAIN WrittenFragment
            /\ (last.err = NoErr /\ last.up) => "token" \in DOMAIN WrittenFragment

\* C25's case: an implicit request whose redirect_uri has a query of its own
\* is approved; the token is in the fragment and the query is as it was.
C25_Witness ==
    /\ last.op = "ImplicitRedirect"
    /\ last.err = NoErr
    /\ last.up
    /\ query.redirect_uri = UriQuery
    /\ Len(last.resp) = 1
    /\ WrittenQuery = [k \in {"code", "error", "state"} |-> "old"]
    /\ "token" \in DOMAIN WrittenFragment

----------------------------------------------------------------------------
(* C26 *)

\* C26: the store is safe under concurrent create/read/expire: in
\* BasicAuthCache no two goroutines (request handlers calling Register* or
\* Lookup*, and the DelayedDelete expiry goroutines) ever access the same map
\* at the same time with at least one of them writing.
C26_NoConcurrentMapAccess == \A a \in access : ~Racing(a)

----------------------------------------------------------------------------
(* C27 *)

\* C27: the cache backend registers entries atomically with their TTL: in
\* RedisAuthCache there is no reachable state, including after a failed or
\* interrupted Expire call, in which a code or token key exists in the
\* backend without an expiry set; and when RegisterAuthCode or
\* RegisterAccessToken returns an error, no entry for that code or token
\* remains stored.
C27_RegisteredWithTTL ==
    /\ \A k \in DOMAIN redis.db : redis.db[k].ttl > 0
    /\ \A c \in redis.calls :
        (c.pc = "returned" /\ c.err # NoErr) => c.key \notin DOMAIN redis.db

----------------------------------------------------------------------------
(* C28 *)

\* C28: every authorization code and every access token registered in the
\* cache is eventually deleted automatically once its TTL has elapsed,
\* without any further request being needed, so the cache does not retain
\* entries forever.
C28_EntriesExpire ==
    \A k \in Keys :
        /\ (k \in DOMAIN AuthCodes) ~> (k \notin DOMAIN AuthCodes)
        /\ (k \in DOMAIN AccessTokens) ~> (k \notin DOMAIN AccessTokens)

\* C28's case: code 1 was registered and its DelayedDelete has just removed
\* it, while the token obtained with it is still in the cache.
C28_Witness ==
    /\ last.op = "DelayedDelete"
    /\ "1" \in issued.codes
    /\ "1" \in DOMAIN last.preCodes
    /\ "1" \notin DOMAIN AuthCodes
    /\ AccessTokens # EmptyValues

----------------------------------------------------------------------------
(* C29 *)

\* The expires_in value the latest call reported with the token it returned.
ReturnedExpiresIn ==
    IF last.op = "ImplicitRedirect" THEN Get(WrittenFragment, "expires_in")
    ELSE Get(last.resp[1].body, "expires_in")

\* C29: the default lifetimes are 120 seconds for an authorization code and
\* 3600 seconds for an access token in every shipped cache (BasicAuthCache
\* and RedisAuthCache), and the expires_in value reported to the client
\* equals the lifetime after which the token is actually removed.
C29_DefaultLifetimes ==
    /\ RedisCodeExpiry = 120
    /\ RedisTokenExpiry = 3600
    /\ \A t \in timers : t.secs = IF t.m = "AuthCodes" THEN 120 ELSE 3600
    /\ ReturnedToken # "" =>
        \E t \in timers :
            /\ t.m = "AccessTokens"
            /\ t.key = ReturnedToken
            /\ ReturnedExpiresIn = ToString(t.secs)

----------------------------------------------------------------------------
(* C30 *)

\* C30: ValidateAccessToken is a pure lookup: for any argument and any result
\* (valid, invalid, or the backend's error) it leaves the sets of stored
\* codes and stored tokens, and their remaining lifetimes, unchanged.
C30_ValidateIsPure ==
    (IsVerifierCall /\ last.authField # "") =>
        /\ AuthCodes = last.preCodes
        /\ AccessTokens = last.preTokens
        /\ timers = last.preTimers

\* C30's case: a token that is in the cache is validated and accepted, and
\* it is still there with its DelayedDelete waiting.
C30_Witness ==
    /\ IsVerifierCall
    /\ last.authField = "1"
    /\ last.served
    /\ "1" \in DOMAIN last.preTokens
    /\ "1" \in DOMAIN AccessTokens
    /\ Timer("AccessTokens", "1", TokenExpiry) \in timers

----------------------------------------------------------------------------
(* C31 *)

\* C31: the Redirecter auth handler answers each authorization request with
\* a 303 redirect to its configured URL carrying exactly that request's own
\* query parameters, also when several requests are handled concurrently: no
\* request is ever redirected with another request's query string.
C31_OwnQueryRedirected ==
    \A c \in redirecter.calls :
        c.pc = "done" =>
            /\ Len(c.resp) = 1
            /\ c.resp[1].status = 303
            /\ c.resp[1].url = RedirecterURL(c.query)
            /\ c.resp[1].RawQuery = c.query

----------------------------------------------------------------------------
(* C32 *)

\* The latest call is a decision of the ApprovalList.
IsApprovalCall == last.op \in {"Authorize", "AuthorizeImplicit"}

\* The names the server's ApprovalList was built with.
Listed == DOMAIN approval.List

\* What the claim says of the client of the latest call: a whitelist (default
\* deny) approves the listed clients, a blacklist (default allow) the others.
ShouldApprove ==
    IF approval.Default THEN last.req.ClientID \notin Listed
    ELSE last.req.ClientID \in Listed

\* The part of the redirect the latest ApprovalList call wrote its fields in.
ApprovalPart ==
    IF last.op = "Authorize" THEN WrittenQuery ELSE WrittenFragment

\* C32: an ApprovalList built by NewWhiteList approves exactly the listed
\* client IDs and denies every other client; one built by NewBlackList denies
\* exactly the listed client IDs and approves every other client.  Approval
\* completes the flow with a nil error and denial completes it with an
\* access_denied ServerError, in both Authorize and AuthorizeImplicit.
C32_ApprovalByList ==
    IsApprovalCall =>
        /\ Len(last.resp) = 1
        /\ last.resp[1].status = 302
        /\ ShouldApprove =>
            /\ last.err = NoErr
            /\ (last.up /\ last.op = "Authorize") =>
                    Get(ApprovalPart, "code") \in DOMAIN AuthCodes
            /\ (last.up /\ last.op = "AuthorizeImplicit") =>
                    Get(ApprovalPart, "token") \in DOMAIN AccessTokens
        /\ ~ShouldApprove =>
            /\ last.err.kind = "ServerError"
            /\ last.err.code = "access_denied"
            /\ Get(ApprovalPart, "error") = "access_denied"
            /\ "code" \notin DOMAIN ApprovalPart
            /\ "token" \notin DOMAIN ApprovalPart
            /\ StoreUntouched

\* C32's case: a blacklist of client1 and client2 denies client2's implicit
\* request.
C32_Witness ==
    /\ last.op = "AuthorizeImplicit"
    /\ approval = NewBlackList({"client1", "client2"})
    /\ last.req.ClientID = "client2"
    /\ last.err.code = "access_denied"
    /\ Get(WrittenFragment, "error") = "access_denied"

----------------------------------------------------------------------------
(* C33 *)

\* The ClientStore reports the client of the latest call as invalid.
Rejected == ValidClient(Clients, last.req.ClientID) = [valid |-> FALSE, err |-> NoErr]

\* C33: an authorization request of a client ID the ClientStore rejects fails
\* with unauthorized_client (no code or token is issued for it), and GetClient
\* returns a nil Client only when the ClientStore reports the client ID as
\* invalid, not when the ClientStore's lookup fails.
C33_RejectedClientIsUnauthorized ==
    IsApprovalCall =>
        /\ Rejected =>
            /\ Get(ApprovalPart, "error") = ErrorCodeUnauthorizedClient
            /\ "code" \notin DOMAIN ApprovalPart
            /\ "token" \notin DOMAIN ApprovalPart
            /\ StoreUntouched
        /\ GetClient(Clients, last.req.ClientID).client = NoClient => Rejected

\* The first half alone: the request of a rejected client fails with
\* unauthorized_client.
C33_RejectedRequestFails ==
    (IsApprovalCall /\ Rejected) =>
        Get(ApprovalPart, "error") = ErrorCodeUnauthorizedClient

\* The second half alone: a nil Client means the client ID was reported
\* invalid.
C33_NilClientMeansInvalid ==
    IsApprovalCall =>
        (GetClient(Clients, last.req.ClientID).client = NoClient => Rejected)

----------------------------------------------------------------------------
(* C34 *)

\* The latest call is MasterHandler serving this run's authorization request,
\* which names a client and a redirect_uri but no response_type (and, as every
\* authorization request, no grant_type and no code).
NoResponseTypeCall ==
    /\ last.op = "MasterHandler"
    /\ query.client_id # ""
    /\ query.redirect_uri # EmptyString
    /\ query.response_type = ""
    /\ query.grant_type = ""
    /\ query.code = ""
    /\ \/ last.treq = NewAccessTokenRequest(query)
       \/ last.req = NewOAuthRequest(query)

\* C34: an authorization request sent through MasterHandler with client_id and
\* redirect_uri but without response_type is answered with one direct JSON
\* error whose code is invalid_request; it is never redirected to the client
\* and never reaches the auth handler.
C34_NoResponseTypeIsDirectError ==
    NoResponseTypeCall =>
        /\ Len(last.resp) = 1
        /\ last.resp[1].status = 200
        /\ Get(last.resp[1].header, "Content-Type") = "application/json"
        /\ Get(last.resp[1].body, "error") = ErrorCodeInvalidRequest
        /\ "token" \notin DOMAIN last.resp[1].body
        /\ NoRedirect
        /\ last.auth = <<>>
        /\ pend = <<>>
        /\ StoreUntouched

\* C34's case: client1 asks with a redirect_uri and a state, without
\* response_type, and gets the JSON error.
C34_Witness ==
    /\ NoResponseTypeCall
    /\ query.client_id = "client1"
    /\ query.redirect_uri = UriPlain
    /\ query.state = "s1"
    /\ last.treq = NewAccessTokenRequest(query)
    /\ Get(last.resp[1].body, "error") = ErrorCodeInvalidRequest

----------------------------------------------------------------------------
(* C35 *)

\* The tokens the latest call added to the cache.
NewTokens == DOMAIN AccessTokens \ DOMAIN last.preTokens

\* The latest call is one that may register a token: an implicit-flow
\* completion the auth handler finished with a nil error, or a token request
\* whose code was in the cache with the redirect_uri the request presents.
MayRegisterToken ==
    \/ last.op = "ImplicitRedirect" /\ last.err = NoErr
    \/ /\ IsTokenCall
       /\ last.treq.Code \in DOMAIN last.preCodes
       /\ last.preCodes[last.treq.Code].RedirectURI = last.treq.RedirectURI

\* C35: token provenance.  A step adds a token to the cache only if it is an
\* implicit-flow completion that the auth handler finished with a nil error,
\* or a CreateAccessToken call whose code was present in the cache and whose
\* presented redirect_uri equalled the recorded one; no other step (failed
\* validation, denied authorization, failed exchange, bearer verification,
\* expiry) adds a token, so every token of every reachable state has that
\* origin.
C35_TokenProvenance ==
    [][\/ DOMAIN AccessTokens' \subseteq DOMAIN AccessTokens
       \/ /\ last'.preTokens = AccessTokens
          /\ last'.preCodes = AuthCodes
          /\ MayRegisterToken']_vars

\* C35's case: a code exchange has just put a token in the cache beside a
\* token registered earlier.
C35_Witness ==
    /\ IsTokenCall
    /\ last.err = NoErr
    /\ NewTokens # {}
    /\ DOMAIN last.preTokens # {}

----------------------------------------------------------------------------
(* C36 *)

\* C36: no two receives from the RandStr channel obtain the same identifier,
\* including receives made concurrently by different requests, so two codes
\* or tokens created by CreateAuthCode, CreateImplicitAccessToken and
\* CreateAccessToken never share a cache key and a new registration never
\* overwrites a live entry.
C36_IdentifiersAreUnique ==
    /\ \A i \in 1..Len(randstr.got), j \in 1..Len(randstr.got) :
            i # j => randstr.got[i].id # randstr.got[j].id
    /\ \A i \in 1..Len(randstr.got) : ~randstr.got[i].live
    /\ randstr.written = randNext =>
            \A i \in 1..Len(randstr.got) :
                RandStr(randstr.written) # randstr.got[i].id

\* C36's case: two handlers have received, one a code and the other a token,
\* both entries are in the cache, and both handlers are blocked in the receive
\* again at the same time.
C36_Witness ==
    /\ Len(randstr.got) = 2
    /\ randstr.got[1].h # randstr.got[2].h
    /\ randstr.got[1].m # randstr.got[2].m
    /\ randstr.got[1].id \in DOMAIN AuthCodes \cup DOMAIN AccessTokens
    /\ randstr.got[2].id \in DOMAIN AuthCodes \cup DOMAIN AccessTokens
    /\ Cardinality(randstr.waiting) = 2

----------------------------------------------------------------------------
(* C37 *)

\* The cache map named m.
MapNamed(m) == IF m = "AuthCodes" THEN AuthCodes ELSE AccessTokens

\* C37: in BasicAuthCache an entry stays present until the TTL counted from
\* its most recent registration has elapsed: when the same key is registered
\* again while an expiry timer of an earlier registration is pending, the
\* older timer does not remove the newer entry before its own TTL.
C37_LivesItsTTL ==
    \A k \in DOMAIN clock.latest :
        clock.now < clock.latest[k] + Expiry(k[1]) =>
            k[2] \in DOMAIN MapNamed(k[1])

----------------------------------------------------------------------------
(* C38 *)

\* Strings a client may present as a code or as a bearer token, among them
\* strings that carry the other namespace's prefix.
Presented == Keys \cup {"", "bogus", "code:1", "token:1", ":1"}

\* C38: authorization codes and access tokens live in disjoint namespaces: a
\* string issued as an authorization code (and not also issued as a token)
\* is never accepted by ValidateAccessToken as a bearer token, and a string
\* issued as an access token is never accepted as a code by
\* CreateAccessToken.  In the Redis cache no code and token are stored under
\* the same key.
C38_DisjointNamespaces ==
    /\ (/\ IsVerifierCall
        /\ last.authField \in issued.codes \ issued.tokens) =>
            /\ last.ret # NoErr
            /\ ~last.served
    /\ (/\ IsTokenCall
        /\ last.treq.Code \in issued.tokens) =>
            /\ last.err # NoErr
            /\ "token" \notin DOMAIN last.resp[1].body
            /\ StoreUntouched
    /\ \A c \in Presented, t \in Presented : codeKey(c) # tokenKey(t)

\* C38's case: code 1 is in the cache, within its TTL, and is presented as a
\* bearer token while the backend answers; the verifier refuses it.
C38_Witness ==
    /\ IsVerifierCall
    /\ last.authField = "1"
    /\ "1" \in DOMAIN AuthCodes
    /\ "1" \in issued.codes \ issued.tokens
    /\ last.up
    /\ last.ret.code = "invalid_token"
    /\ ~last.served

\* C38's other case: token 1 is in the cache and is presented as the code of
\* a well-formed token request, which fails.
C38_TokenAsCode ==
    /\ IsTokenCall
    /\ last.treq.Code = "1"
    /\ last.treq.GrantType = "authorization_code"
    /\ last.treq.RedirectURI = UriPlain
    /\ "1" \in DOMAIN AccessTokens
    /\ last.up
    /\ last.err # NoErr

----------------------------------------------------------------------------
(* C39 *)

\* The token the latest token call returned in its JSON body.
ExchangedToken == last.resp[1].body["token"]

\* C39: the access token registered by a successful code exchange is bound to
\* exactly the clientID and scope that were recorded with the exchanged code
\* at issuance: the scope is passed through unchanged and nothing of the
\* exchange request other than code and redirect_uri influences the token.
C39_TokenBoundToCode ==
    (IsTokenCall /\ last.err = NoErr) =>
        /\ last.treq.Code \in DOMAIN last.preCodes
        /\ NewTokens = {ExchangedToken}
        /\ AccessTokens[ExchangedToken].ClientID =
                last.preCodes[last.treq.Code].ClientID
        /\ AccessTokens[ExchangedToken].Scope =
                last.preCodes[last.treq.Code].Scope
        /\ \A t \in DOMAIN last.preTokens :
                t \in DOMAIN AccessTokens /\ AccessTokens[t] = last.preTokens[t]

\* C39's case: the code of client1's request for scope read is exchanged by a
\* token request that names no client and no scope; the token is client1's,
\* for scope read.
C39_Witness ==
    /\ IsTokenCall
    /\ last.err = NoErr
    /\ last.preCodes[last.treq.Code].ClientID = "client1"
    /\ last.preCodes[last.treq.Code].Scope = "read"
    /\ AccessTokens[ExchangedToken].ClientID = "client1"
    /\ AccessTokens[ExchangedToken].Scope = "read"

====
